---- MODULE Spec2Model ----
(***************************************************************************)
(* A model of the gopls workspace core of kralicky/tools: the overlay file *)
(* system of a cache.Session, the Session's views and their reference      *)
(* counted Snapshots, the text-synchronisation handlers of the LSP server  *)
(* and the memoized promises of a Snapshot.                                *)
(*                                                                         *)
(* Eighteen specifications share the variables:                            *)
(*   SpecFS    overlayFS.updateOverlays applied to batches of              *)
(*             file.Modification, with the disk changing underneath;       *)
(*   Spec      the life of views and snapshots: creation, removal, reset,  *)
(*             shutdown, references acquired and released;                 *)
(*   SpecRead  a request handler reading files through the snapshot it     *)
(*             holds while the editor modifies a file;                     *)
(*   SpecInval a request handler type-checking packages while files        *)
(*             change on disk;                                             *)
(*   SpecSync  the text-synchronisation handlers of the server;            *)
(*   SpecMemo  concurrent Snapshot.ModVuln callers on one snapshot;        *)
(*   SpecSource   reads through the file source of the session;            *)
(*   SpecRecreate views recreated when go.mod files come and go;           *)
(*   SpecRequest  beginFileRequest with every outcome it has;              *)
(*   SpecSelect   the selection of a package for a file;                   *)
(*   SpecServer   the states of the server, from creation to shutdown;     *)
(*   SpecFilter   the directory filters of a folder;                       *)
(*   SpecBatch    batches of modifications applied to the views;           *)
(*   SpecReset    views reset while files are open;                        *)
(*   SpecWatch    the file-watching registrations sent to the client,      *)
(*                which the other specifications leave out;                *)
(*   SpecAddFolders, SpecAddFoldersLive   server.addFolders step by step,  *)
(*                without and with fair scheduling of its goroutines;      *)
(*   SpecInline   inlineCall with every outcome of the inliner.            *)
(***************************************************************************)
EXTENDS Integers, Sequences, FiniteSets, TLC

\* ------------------------------------------------------------------------
\* Bounds of the model.
\* ------------------------------------------------------------------------

\* Longest file content, in bytes.
MaxLen == 1
\* Largest document version an editor sends.
MaxVersion == 2
\* Longest batch of modifications handed to updateOverlays in SpecFS.
MaxBatch == 2
\* Number of concurrent Snapshot.ModVuln callers in SpecMemo.
MaxCallers == 2
\* Number of views the process creates (the last value of viewIndex).
MaxViews == 3
\* Number of views created in Spec, the life of views and snapshots.
MaxLifecycleViews == 2
\* Number of packages MetadataForFile returns, and of compiled files of a
\* package.
MaxMetas == 3
MaxFiles == 2
\* Number of snapshots the process creates (the last global snapshot ID).
MaxSnapshots == 3
\* Longest list of content changes in one didChange notification.
MaxEvents == 2

VARIABLES
    overlays,   \* overlayFS.overlays: map from URI to *Overlay
    disk,       \* the on-disk file system behind overlayFS.delegate
    fsErr,      \* the error returned by the last updateOverlays call ("" is nil)
    fsFailed,   \* history: some updateOverlays call has returned an error
    lastEdit,   \* history, kept while no call has failed: per URI, the latest
                \* Open/Change/Close the editor sent
    read,       \* history: the last ReadFile or mustReadFile call and its result
    selection   \* the metadata of the packages of a file, and what was selected of it

VARIABLES
    modVulnHandles, \* Snapshot.modVulnHandles: map from go.mod URI to *memoize.Promise
    promises,       \* the memoize.Promise objects created so far
    callers,        \* per ModVuln call: where it is, and its locals (entry, hit)
    bgCancelled     \* the snapshot's backgroundCtx has been cancelled

VARIABLES
    views,      \* Session.views: the views of the session, in order
    viewMap,    \* Session.viewMap: file -> best view, as memoized by viewOfLocked
    viewObjs,   \* every View created so far, by id (viewIndex counts them)
    snaps,      \* every Snapshot created so far, by global ID
    query,      \* one request handler in flight: the snapshot it holds, what it read
    panicked,   \* the process has panicked ("" while it runs)
    state,      \* server.state
    changedFiles, \* server.changedFiles: the files the editor has changed
    rpc         \* history: the notification this step handled, and its error

VARIABLES
    watchedGlobPatterns,    \* server.watchedGlobPatterns
    watchRegistrationCount, \* server.watchRegistrationCount
    client,     \* the requests sent to the client so far, with their outcomes
    adding      \* the addFolders call in flight and the goroutines it started

fsVars == <<overlays, disk, fsErr, fsFailed, lastEdit, read, selection>>
srvVars == <<watchedGlobPatterns, watchRegistrationCount, client, adding>>
sessVars == <<views, viewMap, viewObjs, snaps, query, panicked, state, changedFiles, rpc,
              srvVars>>
memoVars == <<modVulnHandles, promises, callers, bgCancelled>>

vars == <<overlays, disk, fsErr, fsFailed, lastEdit, read, selection,
          modVulnHandles, promises, callers, bgCancelled,
          views, viewMap, viewObjs, snaps, query, panicked, state, changedFiles, rpc,
          watchedGlobPatterns, watchRegistrationCount, client, adding>>

\* ------------------------------------------------------------------------
\* Files, byte slices and hashes.
\* ------------------------------------------------------------------------

GoFiles == {"/w/a.go", "/w/sub/b.go"}

\* A Go []byte: nil is distinct from the empty slice.
NilText == [isNil |-> TRUE, b |-> <<>>]
Bytes(s) == [isNil |-> FALSE, b |-> s]

RECURSIVE SeqsUpTo(_)
SeqsUpTo(n) ==
    IF n = 0 THEN {<<>>}
    ELSE LET shorter == SeqsUpTo(n - 1)
         IN  shorter \cup {Append(s, "x") : s \in {t \in shorter : Len(t) = n - 1}}

Contents == SeqsUpTo(MaxLen)
Texts == {Bytes(s) : s \in Contents}

\* file.HashOf: a digest of the bytes alone; a nil and an empty slice hash alike.
HashOf(text) == <<"sha256", text.b>>

\* A file on disk: absent, or present with some content.
NoFile == [exists |-> FALSE, b |-> <<>>]
DiskFile(s) == [exists |-> TRUE, b |-> s]
DiskStates == {NoFile} \cup {DiskFile(s) : s \in Contents}

\* The handle the delegate (disk) file source returns for uri: Content() fails
\* for a file that does not exist, and Identity().Hash is the content's hash.
DiskHandle(dsk, uri) ==
    [uri     |-> uri,
     readErr |-> ~dsk[uri].exists,
     content |-> IF dsk[uri].exists THEN Bytes(dsk[uri].b) ELSE NilText,
     hash    |-> IF dsk[uri].exists THEN HashOf(Bytes(dsk[uri].b)) ELSE <<"none">>,
     version |-> 0,
     overlay |-> FALSE,
     sameOnDisk |-> TRUE]

\* file.KindForLang
KindForLang(langID) ==
    CASE langID = "go"      -> "Go"
      [] langID = "go.mod"  -> "Mod"
      [] langID = "go.work" -> "Work"
      [] OTHER              -> "UnknownKind"

\* ------------------------------------------------------------------------
\* file.Modification
\* ------------------------------------------------------------------------

Versions == 1..MaxVersion

Modification(uri, action, onDisk, version, text, langID) ==
    [URI |-> uri, Action |-> action, OnDisk |-> onDisk, Version |-> version,
     Text |-> text, LanguageID |-> langID]

\* What server.DidOpen sends.
OpenMods(uris, langs) ==
    {Modification(u, "Open", FALSE, v, t, l) :
        u \in uris, v \in Versions, t \in Texts, l \in langs}
\* What server.DidChange sends.
ChangeMods(uris) ==
    {Modification(u, "Change", FALSE, v, t, "") : u \in uris, v \in Versions, t \in Texts}
\* What server.DidSave sends: the text is optional.
SaveMods(uris) ==
    {Modification(u, "Save", FALSE, 0, t, "") : u \in uris, t \in Texts \cup {NilText}}
\* What server.DidClose sends.
CloseMods(uris) ==
    {Modification(u, "Close", FALSE, -1, NilText, "") : u \in uris}
\* What server.DidChangeWatchedFiles sends.
DiskMods(uris) ==
    {Modification(u, a, TRUE, 0, NilText, "") : u \in uris, a \in {"Create", "Change", "Delete"}}

\* ------------------------------------------------------------------------
\* overlayFS
\* ------------------------------------------------------------------------

MapSet(m, k, v) == [x \in DOMAIN m \cup {k} |-> IF x = k THEN v ELSE m[x]]
MapDelete(m, k) == [x \in DOMAIN m \ {k} |-> m[x]]

\* The content of the new overlay: a Save or an on-disk change that carries
\* no text keeps the content of the overlay o.
overlayText_FromModification(o, c) == c.Text

overlayText(o, c) ==
    IF c.Text.isNil /\ (c.Action = "Save" \/ c.OnDisk) THEN o.content ELSE c.Text

\* A new overlay that always takes the version of the modification.
overlayVersion_FromModification(o, c) == c.Version

\* The version of the new overlay: on-disk changes and saves carry none.
overlayVersion(o, c) ==
    IF c.OnDisk \/ c.Action = "Save" THEN o.version ELSE c.Version

\* The file kind: determined on open, otherwise the cached one.
overlayKind(o, c) ==
    IF c.Action = "Open" THEN KindForLang(c.LanguageID) ELSE o.kind

\* Whether the new overlay, of the given hash, has the content of the disk.
sameContentOnDisk_SaveReadsDisk(c, hash, dsk) ==
    CASE c.Action = "Delete" -> FALSE
      [] OTHER               -> LET fh == DiskHandle(dsk, c.URI)
                                IN  ~fh.readErr /\ fh.hash = hash

sameContentOnDisk(c, hash, dsk) ==
    CASE c.Action = "Delete" -> FALSE
      [] c.Action = "Save"   -> TRUE
      [] OTHER               -> LET fh == DiskHandle(dsk, c.URI)
                                IN  ~fh.readErr /\ fh.hash = hash

\* Closing a file just deletes its overlay.
closeOverlay_Keeps(ovs, uri) == ovs

closeOverlay(ovs, uri) == MapDelete(ovs, uri)

\* One iteration of the loop of updateOverlays over the overlay map ovs:
\* the error it returns ("" when it goes on) and the map it leaves.
updateOverlay(ovs, c, dsk) ==
    LET ok == c.URI \in DOMAIN ovs
        o == IF ok THEN ovs[c.URI]
             ELSE [uri |-> c.URI, version |-> 0, content |-> NilText,
                   kind |-> "UnknownKind", hash |-> HashOf(NilText), saved |-> FALSE]
        Fail(e) == [err |-> e, overlays |-> ovs]
    IN
    IF ~ok /\ c.OnDisk THEN [err |-> "", overlays |-> ovs]
    ELSE IF c.Action # "Open" /\ ~ok THEN Fail("modifying unopened overlay")
    ELSE IF c.Action = "Close" THEN [err |-> "", overlays |-> closeOverlay(ovs, c.URI)]
    ELSE IF c.Text.isNil /\ (c.Action = "Save" \/ c.OnDisk) /\ ~ok THEN Fail("no known content")
    ELSE
    LET text == overlayText(o, c)
        hash == HashOf(text)
    IN
    IF c.Action = "Save" /\ ~c.Text.isNil /\ o.hash # hash
    THEN Fail("overlay changed on save")
    ELSE [err |-> "",
          overlays |-> MapSet(ovs, c.URI,
              [uri |-> c.URI, version |-> overlayVersion(o, c), content |-> text,
               kind |-> overlayKind(o, c), hash |-> hash,
               saved |-> sameContentOnDisk(c, hash, dsk)])]

\* overlayFS.updateOverlays: the loop stops at the first failing modification,
\* with the map as the earlier iterations left it.
RECURSIVE updateOverlays(_, _, _)
updateOverlays(ovs, changes, dsk) ==
    IF changes = <<>> THEN [err |-> "", overlays |-> ovs]
    ELSE LET r == updateOverlay(ovs, Head(changes), dsk)
         IN  IF r.err # "" THEN r ELSE updateOverlays(r.overlays, Tail(changes), dsk)

\* overlayFS.ReadFile: an overlay shadows the file on disk.
OverlayHandle(o) ==
    [uri |-> o.uri, readErr |-> FALSE, content |-> o.content, hash |-> o.hash,
     version |-> o.version, overlay |-> TRUE, sameOnDisk |-> o.saved]

FSReadFile(ovs, dsk, uri) ==
    IF uri \in DOMAIN ovs THEN OverlayHandle(ovs[uri]) ELSE DiskHandle(dsk, uri)

\* History: the latest Open, Change or Close of uri among the editor's
\* (not on-disk) modifications of a batch, or prev when the batch has none.
RECURSIVE LatestEdit(_, _, _)
LatestEdit(prev, changes, uri) ==
    IF changes = <<>> THEN prev
    ELSE LET c == Head(changes)
             now == IF c.URI = uri /\ ~c.OnDisk /\ c.Action \in {"Open", "Change", "Close"}
                    THEN [action |-> c.Action, text |-> c.Text]
                    ELSE prev
         IN  LatestEdit(now, Tail(changes), uri)

NoEdit == [action |-> "none", text |-> NilText]

\* History: no ReadFile call yet.
NoRead == [op |-> "", uri |-> "", ctxDone |-> FALSE, readable |-> FALSE, failed |-> FALSE,
           err |-> "", fh |-> [uri |-> "", nil |-> TRUE]]

\* ------------------------------------------------------------------------
\* Paths, folders and the metadata graph of the workspace.
\* ------------------------------------------------------------------------

Folders == {"/w", "/w/sub"}

\* The segments of the path of a URI.
PathOf ==
    ("/w" :> <<"w">>) @@ ("/w/sub" :> <<"w", "sub">>) @@
    ("/w/a.go" :> <<"w", "a.go">>) @@ ("/w/sub/b.go" :> <<"w", "sub", "b.go">>) @@
    ("/go.mod" :> <<"go.mod">>) @@ ("/w/sub/go.mod" :> <<"w", "sub", "go.mod">>) @@
    ("/go.work" :> <<"go.work">>)

\* len() of one path segment.
SegLen == ("w" :> 1) @@ ("sub" :> 3) @@ ("a.go" :> 4) @@ ("b.go" :> 4) @@ ("go.mod" :> 6) @@
          ("go.work" :> 7)

\* len(folder.Dir): one separator before every segment.
RECURSIVE PathLen(_)
PathLen(p) == IF p = <<>> THEN 0 ELSE 1 + SegLen[Head(p)] + PathLen(Tail(p))

Base(uri) == PathOf[uri][Len(PathOf[uri])]
\* filepath.Dir
Dir(uri) == SubSeq(PathOf[uri], 1, Len(PathOf[uri]) - 1)
isGoMod(uri) == Base(uri) = "go.mod"
isGoWork(uri) == Base(uri) = "go.work"

IsPrefix(p, q) == Len(p) <= Len(q) /\ SubSeq(q, 1, Len(p)) = p

\* The packages of the workspace: "sub" holds /w/sub/b.go, "w" holds /w/a.go
\* and imports "sub", and "cmd" (whose own files are outside the model)
\* imports "w".
PkgIDs == {"sub", "w", "cmd"}
CompiledGoFiles ==
    ("sub" :> {"/w/sub/b.go"}) @@ ("w" :> {"/w/a.go"}) @@ ("cmd" :> {})
DepsByPkgPath == ("sub" :> {}) @@ ("w" :> {"sub"}) @@ ("cmd" :> {"w"})

\* The packages that import one of ids.
Importers(ids) == {p \in PkgIDs : DepsByPkgPath[p] \cap ids # {}}

\* The packages among ids and everything that imports them, however far.
RECURSIVE ReverseDependenciesOf(_)
ReverseDependenciesOf(ids) ==
    LET more == ids \cup Importers(ids)
    IN  IF more = ids THEN ids ELSE ReverseDependenciesOf(more)

\* Only the packages that import id directly.
ReverseDependencies_Direct(id, transitive) == Importers({id}) \ {id}

\* Snapshot.ReverseDependencies: the packages that depend on id, directly or
\* (if transitive) however far, id itself excluded.
ReverseDependencies(id, transitive) ==
    (IF transitive THEN ReverseDependenciesOf({id}) ELSE Importers({id})) \ {id}

\* The packages ids and everything they import, however far.
RECURSIVE ForwardDependencies(_)
ForwardDependencies(ids) ==
    LET more == ids \cup UNION {DepsByPkgPath[p] : p \in ids}
    IN  IF more = ids THEN ids ELSE ForwardDependencies(more)

\* The packages that hold one of the files uris.
PackagesOfFiles(uris) == {p \in PkgIDs : CompiledGoFiles[p] \cap uris # {}}

\* ------------------------------------------------------------------------
\* Views and snapshots.  The operators below take and return the state of
\* the session as a record st, so that a handler composes them in order.
\* ------------------------------------------------------------------------

EmptyMap == [x \in {} |-> 0]

\* History: the one content a file had while a snapshot was current is
\* recorded as its hash; Varied stands for a file that had several.  A
\* snapshot also records the snapshot it is a clone of (parent), the files
\* whose change made the clone (changed) and the packages whose entries the
\* clone did not take over (invalidated), the latter two while it is current.
Varied == <<"varied">>

\* History: no notification was handled in this step.
NoRpc == [method |-> "", uri |-> "", err |-> "", inverted |-> FALSE]

\* The server has registered no file watcher and no addFolders call runs.
NoAdding == [pc |-> "idle", folders |-> <<>>, works |-> <<>>]
InitWatch ==
    /\ watchedGlobPatterns = {}
    /\ watchRegistrationCount = 0
    /\ client = [dynamicWatchedFiles |-> TRUE, requests |-> <<>>]
    /\ adding = NoAdding

InitSession ==
    /\ views = <<>>
    /\ viewMap = EmptyMap
    /\ viewObjs = <<>>
    /\ snaps = <<>>
    /\ query = [pc |-> "idle", uri |-> "", view |-> 0, snap |-> 0, seen |-> EmptyMap,
                reread |-> FALSE, stable |-> TRUE]
    /\ panicked = ""
    /\ state = "serverInitialized"
    /\ changedFiles = {}
    /\ rpc = NoRpc
    /\ InitWatch

Sess ==
    [views |-> views, viewMap |-> viewMap, viewObjs |-> viewObjs, snaps |-> snaps,
     panicked |-> panicked]

Panic(st, msg) == [st EXCEPT !.panicked = msg]

\* The largest of a set of natural numbers, 0 for the empty set.
Max0(S) == IF S = {} THEN 0 ELSE CHOOSE x \in S : \A y \in S : y <= x

\* Snapshot.Acquire: one more reference.
Acquire(st, s) == [st EXCEPT !.snaps[s].refs = @ + 1]

\* The release function Acquire returns: one reference less, and the snapshot
\* is destroyed (its background context cancelled, its resources released)
\* when the count reaches zero.
release(st, s) ==
    LET n == st.snaps[s].refs - 1
    IN  IF n = 0
        THEN [st EXCEPT !.snaps[s].refs = 0, !.snaps[s].cancels = @ + 1,
                        !.snaps[s].files = EmptyMap, !.snaps[s].pkgs = EmptyMap,
                        !.snaps[s].changed = {}, !.snaps[s].invalidated = {}]
        ELSE [st EXCEPT !.snaps[s].refs = n]

\* A caller that calls its release function twice.
callerRelease_Twice(st, s) ==
    release(release([st EXCEPT !.snaps[s].leases = @ - 1], s), s)

\* A caller that was handed a release function calls it.
callerRelease(st, s) == release([st EXCEPT !.snaps[s].leases = @ - 1], s)

\* The references createView takes on the first snapshot: the view's, the
\* background initializer's and the caller's.
createViewRefs_NoViewRef(st, s) == Acquire(Acquire(st, s), s)

createViewRefs(st, s) == Acquire(Acquire(Acquire(st, s), s), s)

\* nextSnapshotID: the process-wide counter of snapshot IDs, incremented
\* atomically; its value is the number of IDs handed out so far.
nextSnapshotID(st) ==
    1 + Max0({st.snaps[i].globalID : i \in 1..Len(st.snaps)})

\* A createView that takes the global ID of the first snapshot from the
\* sequence ID.
firstGlobalID_FromSequenceID(st, seqID) == seqID + 1

\* The globalID field of the Snapshot createView makes.
firstGlobalID(st, seqID) == nextSnapshotID(st)

\* A createView whose background initialization holds no reference.
createView_InitNotCounted(st, def, folder, seqID) ==
    LET vid == Len(st.viewObjs) + 1
        sid == Len(st.snaps) + 1
        v == [folder |-> folder, def |-> def, snapshot |-> sid, known |-> {},
              shutdowns |-> 0]
        snapshot == [view |-> vid, seq |-> seqID, globalID |-> firstGlobalID(st, seqID),
                     refs |-> 2, cancels |-> 0,
                     init |-> FALSE, bg |-> TRUE, leases |-> 1,
                     files |-> EmptyMap, pkgs |-> EmptyMap,
                     superseded |-> FALSE, had |-> [u \in GoFiles |-> Varied],
                     parent |-> 0, changed |-> {}, invalidated |-> {}]
    IN  [st EXCEPT !.viewObjs = Append(@, v), !.snaps = Append(@, snapshot)]

\* Session.createView: a new view, with its first snapshot, whose release
\* function the caller holds and whose initialization runs in the background.
createView(st, def, folder, seqID) ==
    LET vid == Len(st.viewObjs) + 1
        sid == Len(st.snaps) + 1
        v == [folder |-> folder, def |-> def, snapshot |-> sid, known |-> {},
              shutdowns |-> 0]
        snapshot == [view |-> vid, seq |-> seqID, globalID |-> firstGlobalID(st, seqID),
                     refs |-> 0, cancels |-> 0,
                     init |-> FALSE, bg |-> TRUE, leases |-> 1,
                     files |-> EmptyMap, pkgs |-> EmptyMap,
                     superseded |-> FALSE, had |-> [u \in GoFiles |-> Varied],
                     parent |-> 0, changed |-> {}, invalidated |-> {}]
        st1 == [st EXCEPT !.viewObjs = Append(@, v), !.snaps = Append(@, snapshot)]
    IN  createViewRefs(st1, sid)

\* getViewDefinition: the go.mod file that defines the workspace of the
\* folder ("" when there is none): the nearest one in the folder or a
\* directory above it, or else the only one below the folder.
getViewDefinition(ovs, dsk, folder) ==
    LET mods == {u \in DOMAIN dsk : isGoMod(u) /\ ~FSReadFile(ovs, dsk, u).readErr}
        above == {u \in mods : IsPrefix(Dir(u), PathOf[folder])}
        below == {u \in mods : IsPrefix(PathOf[folder], Dir(u))} \ above
    IN  IF above # {}
        THEN CHOOSE u \in above : \A w \in above : Len(Dir(w)) <= Len(Dir(u))
        ELSE IF Cardinality(below) = 1 THEN CHOOSE u \in below : TRUE
        ELSE ""

\* View.contains: the file lies under the folder of the view.
contains(v, uri) == IsPrefix(PathOf[v.folder], PathOf[uri])

\* View.knownFile
knownFile(v, uri) == uri \in v.known

\* View.relevantChange: the view knows the file, or contains it.
relevantChange(v, c) == knownFile(v, c.URI) \/ contains(v, c.URI)

\* View.shutdown: the background context of the current snapshot is
\* cancelled and the reference of the view released. (shutdowns is history:
\* the number of calls.)
shutdown(st, vid) ==
    LET s == st.viewObjs[vid].snapshot
        st0 == [st EXCEPT !.viewObjs[vid].shutdowns = @ + 1]
    IN  IF s = 0 THEN st0
        ELSE release([st0 EXCEPT !.viewObjs[vid].snapshot = 0,
                                 !.snaps[s].cancels = @ + 1], s)

\* View.Snapshot: the current snapshot of the view, with one more reference
\* that the release function gives back, or an error once the view is shut
\* down.
viewSnapshot(st, vid) ==
    LET s == st.viewObjs[vid].snapshot
    IN  IF s = 0 THEN [err |-> "view is shutdown", st |-> st, snap |-> 0]
        ELSE [err |-> "", st |-> Acquire(st, s), snap |-> s]


\* The packages a change of the files uris invalidates: those that hold one
\* of the files, and all that depend on them.
invalidatedPackages(uris) ==
    LET direct == PackagesOfFiles(uris)
    IN  direct \cup UNION {ReverseDependencies(id, TRUE) : id \in direct}

\* The file map of a clone: the handle of every changed file replaces the
\* old one, and a file that is gone is removed.
cloneFiles(files, changed) ==
    LET gone == {u \in DOMAIN changed : changed[u].readErr}
    IN  [u \in (DOMAIN files \cup DOMAIN changed) \ gone |->
            IF u \in DOMAIN changed THEN changed[u] ELSE files[u]]

\* Snapshot.clone: the next snapshot of the view, sharing with the old one
\* everything the changed files do not invalidate.
clone(old, changed) ==
    LET invalid == invalidatedPackages(DOMAIN changed)
    IN  [view |-> old.view, seq |-> old.seq + 1, globalID |-> 0, refs |-> 0, cancels |-> 0,
         init |-> old.init, bg |-> FALSE, leases |-> 1,
         files |-> cloneFiles(old.files, changed),
         pkgs |-> [p \in DOMAIN old.pkgs \ invalid |-> old.pkgs[p]],
         superseded |-> FALSE, had |-> old.had, parent |-> 0,
         changed |-> DOMAIN changed, invalidated |-> DOMAIN old.pkgs \cap invalid]

\* View.Invalidate: the clone becomes the current snapshot of the view, which
\* moves its reference from the old snapshot to the new one; the caller gets
\* a reference to the new one too.
Invalidate(st, vid, changed) ==
    LET prev == st.viewObjs[vid].snapshot
        sid == Len(st.snaps) + 1
    IN  IF prev = 0 THEN Panic(st, "invalidate called after shutdown")
        ELSE LET new == [clone(st.snaps[prev], changed) EXCEPT
                            !.parent = prev, !.globalID = nextSnapshotID(st)]
                 st1 == [st EXCEPT !.snaps = Append(@, new)]
                 st2 == [st1 EXCEPT !.viewObjs[vid].snapshot = sid,
                                    !.snaps[prev].superseded = TRUE,
                                    !.snaps[prev].changed = {},
                                    !.snaps[prev].invalidated = {}]
             IN  release(Acquire(Acquire(st2, sid), sid), prev)

\* Snapshot.ReadFile without the file map.
snapshotReadFile_NoCache(st, ovs, dsk, s, uri) ==
    [st |-> st, fh |-> FSReadFile(ovs, dsk, uri)]

\* Snapshot.ReadFile: the handle the snapshot holds for uri; the first read
\* of a file takes the handle from the file source of the view (the overlay
\* file system of the session) and keeps it.
snapshotReadFile(st, ovs, dsk, s, uri) ==
    IF uri \in DOMAIN st.snaps[s].files
    THEN [st |-> st, fh |-> st.snaps[s].files[uri]]
    ELSE LET fh == FSReadFile(ovs, dsk, uri)
         IN  [st |-> [st EXCEPT !.snaps[s].files = MapSet(@, uri, fh)], fh |-> fh]

\* A loop that keeps the first of the views with the longest folder.
RECURSIVE longestView_FirstOnTies(_, _, _, _, _)
longestView_FirstOnTies(st, uri, vs, i, longest) ==
    IF i > Len(vs) THEN longest
    ELSE LET v == st.viewObjs[vs[i]]
         IN  IF longest # 0
                /\ PathLen(PathOf[st.viewObjs[longest].folder]) >= PathLen(PathOf[v.folder])
             THEN longestView_FirstOnTies(st, uri, vs, i + 1, longest)
             ELSE longestView_FirstOnTies(st, uri, vs, i + 1,
                                          IF contains(v, uri) THEN vs[i] ELSE longest)

\* The loop of bestViewForURI over the views vs, from the i-th on: the view
\* that contains uri, preferring longer folders and later views.
RECURSIVE longestView(_, _, _, _, _)
longestView(st, uri, vs, i, longest) ==
    IF i > Len(vs) THEN longest
    ELSE LET v == st.viewObjs[vs[i]]
         IN  IF longest # 0
                /\ PathLen(PathOf[st.viewObjs[longest].folder]) > PathLen(PathOf[v.folder])
             THEN longestView(st, uri, vs, i + 1, longest)
             ELSE longestView(st, uri, vs, i + 1, IF contains(v, uri) THEN vs[i] ELSE longest)

\* bestViewForURI: 0 stands for the index-out-of-range panic of views[0].
bestViewForURI(st, uri, vs) ==
    LET longest == longestView(st, uri, vs, 1, 0)
        knowing == {i \in 1..Len(vs) : knownFile(st.viewObjs[vs[i]], uri)}
    IN  IF longest # 0 THEN longest
        ELSE IF knowing # {} THEN vs[CHOOSE i \in knowing : \A j \in knowing : i <= j]
        ELSE IF vs = <<>> THEN 0
        ELSE vs[1]

\* Session.viewOfLocked: the memoized best view of uri.
viewOfLocked(st, uri) ==
    IF uri \in DOMAIN st.viewMap THEN [err |-> "", st |-> st, view |-> st.viewMap[uri]]
    ELSE IF Len(st.views) = 0 THEN [err |-> "no views in session", st |-> st, view |-> 0]
    ELSE LET v == bestViewForURI(st, uri, st.views)
         IN  [err |-> "", st |-> [st EXCEPT !.viewMap = MapSet(@, uri, v)], view |-> v]

\* The index of the view vid in s.views, or 0.
IndexOf(vs, vid) ==
    IF \E i \in 1..Len(vs) : vs[i] = vid
    THEN CHOOSE i \in 1..Len(vs) : vs[i] = vid
    ELSE 0

\* A dropView that leaves the view running.
dropView_KeepsView(st, vid) == [st EXCEPT !.viewMap = EmptyMap]

\* A dropView that keeps the view map.
dropView_KeepsMap(st, vid) ==
    LET i == IndexOf(st.views, vid)
    IN  IF i # 0 THEN shutdown([st EXCEPT !.views[i] = 0], vid) ELSE st

\* A dropView that shuts the view down whether it finds it or not.
dropView_ShutsDownAnyView(st, vid) ==
    LET st1 == [st EXCEPT !.viewMap = EmptyMap]
        i == IndexOf(st.views, vid)
    IN  IF i # 0 THEN shutdown([st1 EXCEPT !.views[i] = 0], vid) ELSE shutdown(st1, vid)

\* Session.dropView: the view map is dropped, and the view, if it is one of
\* the session, is shut down and its place in s.views set to nil (0).
dropView(st, vid) ==
    LET st1 == [st EXCEPT !.viewMap = EmptyMap]
        i == IndexOf(st.views, vid)
    IN  IF i # 0 THEN shutdown([st1 EXCEPT !.views[i] = 0], vid) ELSE st1

\* removeElement: the last element takes the place of the removed one.
removeElement(slice, index) ==
    LET last == Len(slice)
    IN  SubSeq([slice EXCEPT ![index] = slice[last]], 1, last - 1)

\* A recreated view whose new snapshot reads no file.
readOverlays_None(st, ovs, dsk, s, uris) == st

\* The new snapshot of a recreated view reads every overlay.
RECURSIVE readOverlays(_, _, _, _, _)
readOverlays(st, ovs, dsk, s, uris) ==
    IF uris = {} THEN st
    ELSE LET u == CHOOSE x \in uris : TRUE
         IN  readOverlays(snapshotReadFile(st, ovs, dsk, s, u).st, ovs, dsk, s, uris \ {u})

\* Session.updateViewLocked: the view is dropped and created again, in the
\* place it had in s.views; the reference createView returns is released on
\* return.
updateViewLocked(st, ovs, dsk, vid, def, folder) ==
    IF st.viewObjs[vid].snapshot = 0
    THEN Panic(st, "updateView called after View was already shut down")
    ELSE LET seqID == st.snaps[st.viewObjs[vid].snapshot].seq
             i == IndexOf(st.views, vid)
             st1 == dropView(st, vid)
         IN  IF i = 0 THEN st1
             ELSE LET st2 == createView(st1, def, folder, seqID)
                      view == Len(st2.viewObjs)
                      snapshot == Len(st2.snaps)
                      st3 == readOverlays(st2, ovs, dsk, snapshot, DOMAIN ovs)
                      st4 == [st3 EXCEPT !.views[i] = view]
                  IN  callerRelease(st4, snapshot)


\* brokenFile: the handle of a file that could not be read.
brokenFile(uri) ==
    [uri |-> uri, readErr |-> TRUE, content |-> NilText, hash |-> <<"none">>,
     version |-> 0, overlay |-> FALSE, sameOnDisk |-> FALSE]

\* A nil file.Handle, and the handle of a path that cannot be read as a file
\* (a directory): its Content returns the read error.
NilHandle == [uri |-> "", nil |-> TRUE]

\* A nil *Metadata, and no selection made.
NoMetadata == [ID |-> <<>>, PkgPath |-> "", ForTest |-> "", files |-> 0]
NoSelection ==
    [op |-> "", metas |-> <<>>, err |-> "", md |-> NoMetadata, typeChecked |-> {}, res |-> <<>>]

UnreadableHandle(uri) ==
    [uri |-> uri, readErr |-> TRUE, content |-> NilText, hash |-> <<"none">>,
     version |-> 0, overlay |-> FALSE, sameOnDisk |-> TRUE]

\* xcontext.Detach: the detached context is never cancelled.
Detach(ctxDone) == FALSE

\* file.Source.ReadFile of the session's file system: what it can return for
\* a context that is cancelled (ctxDone) or not.  The read of an unreadable
\* file yields a handle; an error comes from the cancellation alone.
ReadFile(ovs, dsk, uri, ctxDone) ==
    LET fh == IF uri \in DOMAIN ovs \cup DOMAIN dsk
              THEN FSReadFile(ovs, dsk, uri) ELSE UnreadableHandle(uri)
    IN  {[err |-> "", fh |-> fh]}
        \cup (IF ctxDone /\ uri \notin DOMAIN ovs
              THEN {[err |-> "context canceled", fh |-> NilHandle]} ELSE {})

\* mustReadFile, after fs.ReadFile has returned r.
mustReadFileFrom_NoSubstitute(r, uri) == r.fh

mustReadFileFrom(r, uri) == IF r.err # "" THEN brokenFile(uri) ELSE r.fh

\* mustReadFile on the session's file system: the read, with the detached
\* context, has one outcome.
mustReadFile(ovs, dsk, uri) ==
    mustReadFileFrom(CHOOSE r \in ReadFile(ovs, dsk, uri, Detach(TRUE)) : TRUE, uri)

\* A DidModifyFiles that looks at the view definitions again after every
\* event on a go.mod file.
checkViews_AnyGoModEvent(changes) ==
    \E i \in 1..Len(changes) :
        LET c == changes[i]
        IN  \/ isGoWork(c.URI) /\ (c.Action = "Save" \/ c.OnDisk)
            \/ isGoMod(c.URI)

\* Whether a batch makes DidModifyFiles look at the view definitions again.
checkViews(changes) ==
    \E i \in 1..Len(changes) :
        LET c == changes[i]
        IN  \/ isGoWork(c.URI) /\ (c.Action = "Save" \/ c.OnDisk)
            \/ isGoMod(c.URI) /\ c.Action # "Change" /\ c.Action # "Save"

\* The loop of DidModifyFiles over s.views, from the i-th view on, that
\* recreates every view whose definition is no longer the one it has.
RECURSIVE recreateViews(_, _, _, _)
recreateViews(st, ovs, dsk, i) ==
    IF i > Len(st.views) \/ st.panicked # "" THEN st
    ELSE LET vid == st.views[i]
             info == getViewDefinition(ovs, dsk, st.viewObjs[vid].folder)
         IN  IF info # st.viewObjs[vid].def
             THEN recreateViews(
                    updateViewLocked(st, ovs, dsk, vid, info, st.viewObjs[vid].folder),
                    ovs, dsk, i + 1)
             ELSE recreateViews(st, ovs, dsk, i + 1)

\* View.markKnown for each of the views vs.
RECURSIVE markKnown(_, _, _)
markKnown(st, vs, uri) ==
    IF vs = <<>> THEN st
    ELSE markKnown([st EXCEPT !.viewObjs[Head(vs)].known = @ \cup {uri}], Tail(vs), uri)

\* A DidModifyFiles that skips no change.
skipChange_Never(changedViews, c) == FALSE

\* Whether DidModifyFiles passes over the change c, relevant to the views
\* changedViews: a change on disk that is relevant to no view.
skipChange(changedViews, c) == changedViews = <<>> /\ c.OnDisk

\* The loop of DidModifyFiles over the changes that collects, per affected
\* view, the handles of the files that changed (byView), and per file the
\* views it affects (affectedViews).
RECURSIVE collectViews(_, _, _, _, _, _)
collectViews(st, ovs, dsk, changes, byView, affectedViews) ==
    IF changes = <<>>
    THEN [err |-> "", st |-> st, byView |-> byView, affectedViews |-> affectedViews]
    ELSE
    LET c == Head(changes)
        relevant == SelectSeq(st.views, LAMBDA v : relevantChange(st.viewObjs[v], c))
        best == viewOfLocked(st, c.URI)
    IN
    IF skipChange(relevant, c)
    THEN collectViews(st, ovs, dsk, Tail(changes), byView, affectedViews)
    ELSE IF relevant = <<>> /\ best.err # ""
    THEN [err |-> best.err, st |-> st, byView |-> byView, affectedViews |-> affectedViews]
    ELSE
    LET changedViews == IF relevant = <<>> THEN <<best.view>> ELSE relevant
        st1 == IF relevant = <<>> THEN best.st ELSE st
        fh == mustReadFile(ovs, dsk, c.URI)
        st2 == markKnown(st1, changedViews, c.URI)
        vset == {changedViews[i] : i \in 1..Len(changedViews)}
        byView2 == [v \in DOMAIN byView \cup vset |->
                       IF v \in vset
                       THEN MapSet(IF v \in DOMAIN byView THEN byView[v] ELSE EmptyMap,
                                   c.URI, fh)
                       ELSE byView[v]]
    IN  collectViews(st2, ovs, dsk, Tail(changes), byView2,
                     MapSet(affectedViews, c.URI, changedViews))

\* A DidModifyFiles that invalidates only the first of the affected views.
invalidateViews_FirstOnly(st, byView, order) ==
    IF order = <<>> THEN st ELSE Invalidate(st, Head(order), byView[Head(order)])

\* The loop of DidModifyFiles that invalidates the affected views, in the
\* order the map iteration takes them.
RECURSIVE invalidateViews(_, _, _)
invalidateViews(st, byView, order) ==
    IF order = <<>> \/ st.panicked # "" THEN st
    ELSE invalidateViews(Invalidate(st, Head(order), byView[Head(order)]), byView, Tail(order))

\* The orders a Go map iteration may take over the keys ks.
Orders(ks) ==
    {o \in [1..Cardinality(ks) -> ks] : \A i, j \in DOMAIN o : i # j => o[i] # o[j]}

\* Session.DidModifyFiles up to the invalidations: the overlays are updated,
\* views are recreated, and the affected views are collected.
didModifyFilesCollect(st, ovs, dsk, changes) ==
    LET r == updateOverlays(ovs, changes, dsk)
    IN  IF r.err # ""
        THEN [err |-> r.err, st |-> st, overlays |-> r.overlays, byView |-> EmptyMap,
              affectedViews |-> EmptyMap]
        ELSE LET st1 == IF checkViews(changes)
                        THEN recreateViews(st, r.overlays, dsk, 1) ELSE st
                 coll == collectViews(st1, r.overlays, dsk, changes, EmptyMap, EmptyMap)
             IN  [err |-> coll.err, st |-> coll.st, overlays |-> r.overlays,
                  byView |-> IF coll.err = "" THEN coll.byView ELSE EmptyMap,
                  affectedViews |-> coll.affectedViews]

\* History: what each file of the model reads as in the file system.
FSView(ovs, dsk) == [u \in GoFiles |-> FSReadFile(ovs, dsk, u).hash]

\* History: the snapshots of a step that leaves the file system as
\* (ovs2, dsk2) and the request handler holding snapshot held, with the
\* contents the files had while each was current: a new snapshot starts with
\* the contents at its creation, a snapshot that stays current sees the
\* contents vary, the superseded or shut down snapshot of the handler keeps
\* what it had, and for the other snapshots nothing is recorded.
WithHad(st, ovs2, dsk2, held) ==
    LET before == FSView(overlays, disk)
        after == FSView(ovs2, dsk2)
        current(s) == \E v \in 1..Len(st.viewObjs) : st.viewObjs[v].snapshot = s
    IN  [s \in 1..Len(st.snaps) |->
            [st.snaps[s] EXCEPT !.had =
                IF st.snaps[s].refs = 0 THEN [u \in GoFiles |-> Varied]
                ELSE IF s > Len(snaps) THEN after
                ELSE IF current(s)
                THEN [u \in GoFiles |-> IF after[u] = before[u] THEN @[u] ELSE Varied]
                ELSE IF s = held THEN @
                ELSE [u \in GoFiles |-> Varied]]]

\* The session becomes st, within the bounds of the model.
CommitSession(st, ovs2, dsk2, held) ==
    /\ Len(st.viewObjs) <= MaxViews
    /\ Len(st.snaps) <= MaxSnapshots
    /\ views' = st.views
    /\ viewMap' = st.viewMap
    /\ viewObjs' = st.viewObjs
    /\ snaps' = WithHad(st, ovs2, dsk2, held)
    /\ panicked' = st.panicked

\* The same, in a step that is not the handling of a notification.
Commit(st, ovs2, dsk2, held) ==
    /\ CommitSession(st, ovs2, dsk2, held)
    /\ rpc' = NoRpc

\* ------------------------------------------------------------------------
\* Memoized promises of one Snapshot: Snapshot.ModVuln.
\* ------------------------------------------------------------------------

ModFiles == {"go.mod", "sub/go.mod"}
Callers == 1..MaxCallers
\* What scan.VulnerablePackages may return.
ScanResults == {"no vulns", "scan error"}

\* A call of ModVuln that has not started.
\* (coWaiters is history: the other callers that were waiting for the same
\* promise when the context of this one was cancelled.)
IdleCaller ==
    [pc |-> "idle", uri |-> "", entry |-> 0, hit |-> FALSE, result |-> "", coWaiters |-> {}]

InitMemo ==
    /\ modVulnHandles = [u \in {} |-> 0]
    /\ promises = <<>>
    /\ callers = [c \in Callers |-> IdleCaller]
    /\ bgCancelled = FALSE

\* memoize.NewPromise: a promise whose function has not been started.
NewPromise(key) == [state |-> "idle", key |-> key, value |-> "", runs |-> 0]

\* ModVuln, first critical section: entry, hit := s.modVulnHandles.Get(modURI).
\* On a hit the call goes on to await the entry.
ModVulnGet(c, modURI) ==
    /\ callers[c].pc = "idle"
    /\ LET hit == modURI \in DOMAIN modVulnHandles
       IN  callers' = [callers EXCEPT ![c] =
               [pc |-> IF hit THEN "await" ELSE "miss", uri |-> modURI,
                entry |-> IF hit THEN modVulnHandles[modURI] ELSE 0,
                hit |-> hit, result |-> "", coWaiters |-> {}]]
    /\ UNCHANGED <<modVulnHandles, promises, bgCancelled, fsVars, sessVars>>

\* ModVuln, cache miss: a new promise is created and stored, in a second
\* critical section, over whatever entry the map holds by then.
ModVulnSet(c) ==
    /\ callers[c].pc = "miss"
    /\ promises' = Append(promises, NewPromise(callers[c].uri))
    /\ modVulnHandles' = MapSet(modVulnHandles, callers[c].uri, Len(promises) + 1)
    /\ callers' = [callers EXCEPT ![c].pc = "await", ![c].entry = Len(promises) + 1]
    /\ UNCHANGED <<bgCancelled, fsVars, sessVars>>

\* awaitPromise, entering: the first awaiter of an idle promise starts its
\* function, under a context of its own that the snapshot's teardown cancels;
\* an awaiter of a completed promise returns its value at once.
AwaitPromiseEnter(c) ==
    /\ callers[c].pc = "await"
    /\ LET p == callers[c].entry
           st == promises[p].state
       IN  CASE st = "completed" ->
                  /\ callers' = [callers EXCEPT ![c].pc = "done",
                                                ![c].result = promises[p].value]
                  /\ UNCHANGED promises
             [] st = "idle" /\ bgCancelled ->
                  /\ callers' = [callers EXCEPT ![c].pc = "done",
                                                ![c].result = "computation cancelled"]
                  /\ UNCHANGED promises
             [] st = "idle" /\ ~bgCancelled ->
                  /\ promises' = [promises EXCEPT ![p].state = "running",
                                                  ![p].runs = @ + 1]
                  /\ callers' = [callers EXCEPT ![c].pc = "waiting"]
             [] OTHER ->
                  /\ callers' = [callers EXCEPT ![c].pc = "waiting"]
                  /\ UNCHANGED promises
    /\ UNCHANGED <<modVulnHandles, bgCancelled, fsVars, sessVars>>

\* The promise's function returns: scan.VulnerablePackages finishes.
PromiseComplete(p, v) ==
    /\ p \in DOMAIN promises
    /\ promises[p].state = "running"
    /\ promises' = [promises EXCEPT ![p].state = "completed", ![p].value = v]
    /\ UNCHANGED <<modVulnHandles, callers, bgCancelled, fsVars, sessVars>>

\* awaitPromise, returning: the awaited promise has completed, or its
\* computation was cancelled.
AwaitPromiseReturn(c) ==
    /\ callers[c].pc = "waiting"
    /\ LET p == callers[c].entry
       IN  /\ promises[p].state \in {"completed", "cancelled"}
           /\ callers' = [callers EXCEPT
                 ![c].pc = "done",
                 ![c].result = IF promises[p].state = "completed"
                               THEN promises[p].value ELSE "computation cancelled"]
    /\ UNCHANGED <<modVulnHandles, promises, bgCancelled, fsVars, sessVars>>

\* The context of an awaiting caller is cancelled: that caller alone stops
\* waiting and returns ctx.Err().
CoWaiters(c) ==
    {d \in Callers \ {c} : callers[d].pc = "waiting" /\ callers[d].entry = callers[c].entry}

AwaitCancelled_LastWaiterCancels(c) ==
    /\ callers[c].pc = "waiting"
    /\ callers' = [callers EXCEPT ![c].pc = "done", ![c].result = "context canceled",
                                  ![c].coWaiters = CoWaiters(c)]
    /\ promises' =
         IF \A d \in Callers \ {c} :
                ~(callers[d].pc = "waiting" /\ callers[d].entry = callers[c].entry)
         THEN [promises EXCEPT ![callers[c].entry].state =
                   IF @ = "running" THEN "idle" ELSE @]
         ELSE promises
    /\ UNCHANGED <<modVulnHandles, bgCancelled, fsVars, sessVars>>

AwaitCancelled(c) ==
    /\ callers[c].pc = "waiting"
    /\ callers' = [callers EXCEPT ![c].pc = "done", ![c].result = "context canceled",
                                  ![c].coWaiters = CoWaiters(c)]
    /\ UNCHANGED <<modVulnHandles, promises, bgCancelled, fsVars, sessVars>>

\* The snapshot (or its view) is torn down: its background context is
\* cancelled, which cancels the running computations; their entries are evicted.
Teardown ==
    /\ ~bgCancelled
    /\ bgCancelled' = TRUE
    /\ promises' = [p \in DOMAIN promises |->
                      IF promises[p].state = "running"
                      THEN [promises[p] EXCEPT !.state = "cancelled"]
                      ELSE promises[p]]
    /\ modVulnHandles' =
         [u \in {x \in DOMAIN modVulnHandles :
                    promises[modVulnHandles[x]].state # "running"} |-> modVulnHandles[u]]
    /\ UNCHANGED <<callers, fsVars, sessVars>>

NextMemo ==
    \/ \E c \in Callers, u \in ModFiles : ModVulnGet(c, u)
    \/ \E c \in Callers : ModVulnSet(c)
    \/ \E c \in Callers : AwaitPromiseEnter(c)
    \/ \E p \in 1..MaxCallers, v \in ScanResults : PromiseComplete(p, v)
    \/ \E c \in Callers : AwaitPromiseReturn(c)
    \/ \E c \in Callers : AwaitCancelled(c)
    \/ Teardown

InitMemoSpec ==
    /\ InitMemo
    /\ overlays = [u \in {} |-> NoEdit]
    /\ disk = [u \in GoFiles |-> NoFile]
    /\ fsErr = ""
    /\ fsFailed = FALSE
    /\ lastEdit = [u \in GoFiles |-> NoEdit]
    /\ read = NoRead
    /\ selection = NoSelection
    /\ InitSession

SpecMemo == InitMemoSpec /\ [][NextMemo]_vars

\* ------------------------------------------------------------------------
\* Claims about memoized promises (SpecMemo).
\* ------------------------------------------------------------------------

\* The callers of ModVuln for uri that have got as far as a promise.
Awaiters(uri) ==
    {c \in Callers : callers[c].uri = uri /\ callers[c].pc \in {"await", "waiting", "done"}}

\* C3: for every go.mod URI, the scan is started at most once on the snapshot
\* and all callers for that URI await the same promise and get the same result.
C3_ScanStartedOnce ==
    \A u \in ModFiles :
        /\ Cardinality({p \in DOMAIN promises :
                           promises[p].key = u /\ promises[p].runs > 0}) <= 1
        /\ \A c, d \in Awaiters(u) : callers[c].entry = callers[d].entry
        /\ \A c, d \in Awaiters(u) :
               (callers[c].pc = "done" /\ callers[d].pc = "done"
                    /\ callers[c].result \in ScanResults
                    /\ callers[d].result \in ScanResults)
                   => callers[c].result = callers[d].result

\* C10: when the context of one awaiter is cancelled, only that caller
\* returns, with the cancellation error: the promise and every other caller
\* are as they were; a computation is cancelled only by the teardown of the
\* snapshot; and an awaiter that was not cancelled itself returns the value
\* of the promise it awaited unless the snapshot was torn down.
C10_CancelStep ==
    \A c \in Callers :
        (callers[c].pc = "waiting" /\ callers'[c].result = "context canceled") =>
            /\ promises' = promises
            /\ \A d \in Callers \ {c} : callers'[d] = callers[d]

C10_CancelState ==
    /\ \A p \in DOMAIN promises :
           /\ promises[p].state = "cancelled" => bgCancelled
           /\ promises[p].runs <= 1
    /\ \A c \in Callers :
           callers[c].pc = "done" =>
               \/ callers[c].result = "context canceled"
               \/ callers[c].result = "computation cancelled" /\ bgCancelled
               \/ /\ promises[callers[c].entry].state = "completed"
                  /\ callers[c].result = promises[callers[c].entry].value

FSMods ==
    OpenMods(GoFiles, {"go"}) \cup ChangeMods(GoFiles) \cup SaveMods(GoFiles)
        \cup CloseMods(GoFiles) \cup DiskMods(GoFiles)

\* The modifications that batches of more than one are made of: those of
\* FSMods at the first version, with the longest text or none.
LongText == Bytes([i \in 1..MaxLen |-> "x"])
BatchMods ==
    {m \in FSMods : m.Version \in {-1, 0, 1} /\ m.Text \in {NilText, LongText}
                     /\ m.Action # "Create"}

RECURSIVE BatchesUpTo(_, _)
BatchesUpTo(mods, n) ==
    IF n = 0 THEN {<<>>}
    ELSE LET shorter == BatchesUpTo(mods, n - 1)
         IN  shorter \cup {Append(s, m) : s \in {t \in shorter : Len(t) = n - 1}, m \in mods}

FSBatches == {b \in BatchesUpTo(BatchMods, MaxBatch) : Len(b) > 1}

InitFS ==
    /\ overlays = [u \in {} |-> NoEdit]
    /\ disk \in [GoFiles -> DiskStates]
    /\ fsErr = ""
    /\ fsFailed = FALSE
    /\ lastEdit = [u \in GoFiles |-> NoEdit]
    /\ read = NoRead
    /\ selection = NoSelection
    /\ InitMemo
    /\ InitSession

UpdateOverlays(changes) ==
    \E r \in {updateOverlays(overlays, changes, disk)} :
        /\ overlays' = r.overlays
        /\ fsErr' = r.err
        /\ fsFailed' = (fsFailed \/ r.err # "")
        /\ lastEdit' = IF fsFailed \/ r.err # ""
                       THEN [u \in GoFiles |-> NoEdit]
                       ELSE [u \in GoFiles |-> LatestEdit(lastEdit[u], changes, u)]
        /\ UNCHANGED <<disk, read, selection, memoVars, sessVars>>

\* The file system changes a file behind the server's back.
DiskWrite(uri, f) ==
    /\ disk[uri] # f
    /\ disk' = [disk EXCEPT ![uri] = f]
    /\ snaps' = WithHad(Sess, overlays, [disk EXCEPT ![uri] = f], query.snap)
    /\ UNCHANGED <<overlays, fsErr, fsFailed, lastEdit, read, selection, memoVars, srvVars>>
    /\ UNCHANGED <<views, viewMap, viewObjs, query, panicked, state, changedFiles, rpc>>

NextFS ==
    \/ \E m \in FSMods : UpdateOverlays(<<m>>)
    \/ \E changes \in FSBatches : UpdateOverlays(changes)
    \/ \E uri \in GoFiles, f \in DiskStates : DiskWrite(uri, f)

SpecFS == InitFS /\ [][NextFS]_vars

\* ------------------------------------------------------------------------
\* Claims about the overlay file system (SpecFS).
\* ------------------------------------------------------------------------

\* C5: while every overlay update so far has succeeded, a URI whose latest
\* editor event is an Open or a Change carrying text X has an overlay with
\* content X, and reads of it return X whatever is on disk; a URI whose latest
\* editor event is a Close has no overlay, and reads of it return the disk's file.
C5_OverlayPrecedence ==
    ~fsFailed =>
        \A u \in GoFiles :
            /\ lastEdit[u].action \in {"Open", "Change"} =>
                    /\ u \in DOMAIN overlays
                    /\ overlays[u].content = lastEdit[u].text
                    /\ FSReadFile(overlays, disk, u).content = lastEdit[u].text
            /\ lastEdit[u].action = "Close" =>
                    /\ u \notin DOMAIN overlays
                    /\ FSReadFile(overlays, disk, u) = DiskHandle(disk, u)

\* a.go was changed in the editor to a text the disk does not hold, after an
\* on-disk event for it, while b.go was opened and closed again.
C5_Witness ==
    /\ ~fsFailed
    /\ lastEdit["/w/a.go"] = [action |-> "Change", text |-> LongText]
    /\ disk["/w/a.go"] = DiskFile(<<>>)
    /\ "/w/a.go" \in DOMAIN overlays /\ ~overlays["/w/a.go"].saved
    /\ lastEdit["/w/sub/b.go"].action = "Close"
    /\ disk["/w/sub/b.go"].exists

\* C6: a call of updateOverlays that returns an error leaves the overlay map
\* exactly as it was before the call.
C6_AllOrNothing == [][fsErr' # "" => overlays' = overlays]_vars

\* C17: a call of updateOverlays with one Save of a URI that has an overlay
\* fails, and leaves the overlay map as it was, when the Save carries text
\* whose hash is not the hash of the overlay; when it succeeds, the overlay
\* has the content, hash, version and kind it had, its saved flag is set, and
\* the other overlays are as they were.
C17_Step ==
    \A m \in SaveMods(GoFiles) :
        (m.URI \in DOMAIN overlays /\ UpdateOverlays(<<m>>)) =>
            LET o == overlays[m.URI]
            IN  /\ (~m.Text.isNil /\ HashOf(m.Text) # o.hash) =>
                        (fsErr' # "" /\ overlays' = overlays)
                /\ fsErr' = "" =>
                        /\ DOMAIN overlays' = DOMAIN overlays
                        /\ \A u \in DOMAIN overlays \ {m.URI} : overlays'[u] = overlays[u]
                        /\ overlays'[m.URI].saved
                        /\ overlays'[m.URI].content.b = o.content.b
                        /\ overlays'[m.URI].hash = o.hash
                        /\ overlays'[m.URI].version = o.version
                        /\ overlays'[m.URI].kind = o.kind

C17_SaveChecksHash == [][C17_Step]_vars

\* The last call was a Save that was rejected for its text, while the other
\* file has an overlay that a Save marked saved although the disk holds
\* something else.
C17_Witness ==
    /\ fsErr = "overlay changed on save"
    /\ "/w/a.go" \in DOMAIN overlays
    /\ "/w/sub/b.go" \in DOMAIN overlays
    /\ overlays["/w/sub/b.go"].saved
    /\ overlays["/w/sub/b.go"].content = LongText
    /\ disk["/w/sub/b.go"] = DiskFile(<<>>)
    /\ overlays["/w/sub/b.go"].version = MaxVersion

\* The batches of on-disk modifications DidChangeWatchedFiles hands over.
OnDiskBatches == {b \in BatchesUpTo({m \in BatchMods : m.OnDisk}, MaxBatch) : Len(b) > 1}

\* C18: in every state the overlay map reaches, a call of updateOverlays with
\* one modification creates an overlay only for an Open and removes one only
\* for a Close; a Change, Save or Close from the editor for a URI without
\* overlay fails; an on-disk modification, alone or in a batch, neither
\* creates nor deletes an overlay.
C18_Effect(m) ==
    LET r == updateOverlays(overlays, <<m>>, disk)
        had == m.URI \in DOMAIN overlays
        has == m.URI \in DOMAIN r.overlays
    IN  /\ DOMAIN r.overlays \ {m.URI} = DOMAIN overlays \ {m.URI}
        /\ m.OnDisk => (has <=> had) /\ r.err = ""
        /\ (~m.OnDisk /\ m.Action = "Open") => has /\ r.err = ""
        /\ (~m.OnDisk /\ m.Action = "Close" /\ had) => ~has /\ r.err = ""
        /\ (~m.OnDisk /\ m.Action \in {"Change", "Save"} /\ had) => has
        /\ (~m.OnDisk /\ m.Action \in {"Change", "Save", "Close"} /\ ~had) =>
                ~has /\ r.err # ""

C18_OverlayFromOpenToClose ==
    /\ \A m \in FSMods : C18_Effect(m)
    /\ \A b \in OnDiskBatches :
          LET r == updateOverlays(overlays, b, disk)
          IN  DOMAIN r.overlays = DOMAIN overlays /\ r.err = ""

\* An overlay exactly for the file that was opened, at the largest version
\* and without a file on disk; the last call, an editor event for the file
\* without overlay, was rejected.
C18_Witness ==
    /\ DOMAIN overlays = {"/w/a.go"}
    /\ fsErr = "modifying unopened overlay"
    /\ ~disk["/w/a.go"].exists
    /\ overlays["/w/a.go"].version = MaxVersion

\* ------------------------------------------------------------------------
\* SpecSource: files are read through the session's file system, with a
\* context that is cancelled or not, and through mustReadFile, while the
\* editor opens and closes files.
\* ------------------------------------------------------------------------

\* What is read: the files, and the directory /w/sub.
ReadURIs == GoFiles \cup {"/w/sub"}

\* History: whether the content of uri can be read now.
Readable(uri) == uri \in DOMAIN overlays \/ (uri \in DOMAIN disk /\ disk[uri].exists)

\* A caller reads uri through the session's file system.
ReadFileCall(uri, ctxDone) ==
    /\ \E r \in ReadFile(overlays, disk, uri, ctxDone) :
          read' = [op |-> "ReadFile", uri |-> uri, ctxDone |-> ctxDone,
                   readable |-> Readable(uri), failed |-> r.err # "",
                   err |-> r.err, fh |-> r.fh]
    /\ UNCHANGED <<overlays, disk, fsErr, fsFailed, lastEdit, selection, memoVars, sessVars>>

\* What the file.Source handed to mustReadFile returns for the detached
\* context: the session's file system its handle; another implementation may
\* fail all the same.
SourceOutcomes(uri, ctxDone) ==
    ReadFile(overlays, disk, uri, Detach(ctxDone))
        \cup {[err |-> "unexpected failure", fh |-> NilHandle]}

\* mustReadFile
MustReadFileCall(uri, ctxDone) ==
    /\ \E r \in SourceOutcomes(uri, ctxDone) :
          read' = [op |-> "mustReadFile", uri |-> uri, ctxDone |-> ctxDone,
                   readable |-> Readable(uri), failed |-> r.err # "",
                   err |-> "", fh |-> mustReadFileFrom(r, uri)]
    /\ UNCHANGED <<overlays, disk, fsErr, fsFailed, lastEdit, selection, memoVars, sessVars>>

SourceMods ==
    {m \in OpenMods(GoFiles, {"go"}) : m.Version = 1} \cup CloseMods(GoFiles)

NextSource ==
    \/ \E m \in SourceMods : UpdateOverlays(<<m>>)
    \/ \E uri \in ReadURIs, ctxDone \in BOOLEAN : ReadFileCall(uri, ctxDone)
    \/ \E uri \in ReadURIs, ctxDone \in BOOLEAN : MustReadFileCall(uri, ctxDone)

SpecSource == InitFS /\ [][NextSource]_vars

\* C19: a ReadFile whose context is not cancelled returns no error and a
\* handle, whose Content fails exactly when the file cannot be read;
\* mustReadFile returns a handle whatever the context and the source do: the
\* handle of the source, or, when the read failed, a handle for the same URI
\* whose Content fails, whose version is 0 and which is not saved on disk.
C19_ReadFileNeverFails ==
    /\ (read.op = "ReadFile" /\ ~read.ctxDone) =>
            /\ read.err = ""
            /\ read.fh # NilHandle
            /\ read.fh.uri = read.uri
            /\ read.fh.readErr <=> ~read.readable
    /\ read.op = "mustReadFile" =>
            /\ read.fh # NilHandle
            /\ read.fh.uri = read.uri
            /\ read.failed =>
                    (read.fh.readErr /\ read.fh.version = 0 /\ ~read.fh.sameOnDisk)
            /\ ~read.failed => (read.fh.readErr <=> ~read.readable)

\* mustReadFile was called with a cancelled context for a file that is open
\* in the editor, and the read failed.
C19_Witness ==
    /\ read.op = "mustReadFile"
    /\ read.ctxDone
    /\ read.failed
    /\ read.readable
    /\ read.uri \in DOMAIN overlays

\* A read with a context that is not cancelled returned the handle of a file
\* that does not exist.
C19_WitnessUnreadable ==
    /\ read.op = "ReadFile"
    /\ ~read.ctxDone
    /\ ~read.readable
    /\ read.err = ""

\* ------------------------------------------------------------------------
\* The Session: views come and go, files are modified, the background
\* initializer and the callers release their references, and one request
\* handler reads files and type-checks through the snapshot it holds.
\* ------------------------------------------------------------------------

\* The document version the editor sends next for uri.
EditorVersion(uri) ==
    IF uri \in DOMAIN overlays /\ overlays[uri].version < MaxVersion
    THEN overlays[uri].version + 1
    ELSE IF uri \in DOMAIN overlays THEN MaxVersion ELSE 1

\* The modifications the text-synchronisation handlers make of the editor's
\* notifications about one file.
EditorMods ==
    {Modification(u, "Open", FALSE, 1, t, "go") : u \in GoFiles, t \in Texts}
    \cup {Modification(u, "Change", FALSE, EditorVersion(u), t, "") : u \in GoFiles, t \in Texts}
    \cup SaveMods(GoFiles) \cup CloseMods(GoFiles)

\* The batches DidChangeWatchedFiles makes: every file at most once.
WatchedBatches ==
    {b \in BatchesUpTo(DiskMods(GoFiles), MaxBatch) :
        b # <<>> /\ \A i, j \in DOMAIN b : i # j => b[i].URI # b[j].URI}

OtherVars == <<fsErr, fsFailed, lastEdit, read, selection, memoVars, srvVars, state, changedFiles>>

\* Session.NewView
NewView(folder) ==
    /\ panicked = ""
    /\ \A i \in 1..Len(views) : viewObjs[views[i]].folder # folder
    /\ LET st1 == createView(Sess, getViewDefinition(overlays, disk, folder), folder, 0)
           st2 == [st1 EXCEPT !.views = Append(@, Len(st1.viewObjs)), !.viewMap = EmptyMap]
       IN  Commit(st2, overlays, disk, query.snap)
    /\ UNCHANGED <<overlays, disk, query, OtherVars>>

\* Session.RemoveView
RemoveView(vid) ==
    /\ panicked = ""
    /\ LET i == IndexOf(views, vid)
           st1 == dropView(Sess, vid)
           st2 == IF i = 0 THEN st1 ELSE [st1 EXCEPT !.views = removeElement(@, i)]
       IN  Commit(st2, overlays, disk, query.snap)
    /\ UNCHANGED <<overlays, disk, query, OtherVars>>

\* Session.ResetView
ResetView(uri) ==
    /\ panicked = ""
    /\ LET v == bestViewForURI(Sess, uri, views)
           st1 == IF v = 0 THEN Panic(Sess, "index out of range")
                  ELSE updateViewLocked(Sess, overlays, disk, v,
                                        viewObjs[v].def, viewObjs[v].folder)
       IN  Commit(st1, overlays, disk, query.snap)
    /\ UNCHANGED <<overlays, disk, query, OtherVars>>

\* A Shutdown that forgets the views without shutting them down.
shutdownAll_Forgets(st, vs) == st

\* The loop of Session.Shutdown over the views.
RECURSIVE shutdownAll(_, _)
shutdownAll(st, vs) ==
    IF vs = <<>> THEN st ELSE shutdownAll(shutdown(st, Head(vs)), Tail(vs))

\* Session.Shutdown
SessionShutdown ==
    /\ panicked = ""
    /\ views # <<>>
    /\ LET st1 == [Sess EXCEPT !.views = <<>>, !.viewMap = EmptyMap]
       IN  Commit(shutdownAll(st1, views), overlays, disk, query.snap)
    /\ UNCHANGED <<overlays, disk, query, OtherVars>>

\* Session.DidModifyFiles
DidModifyFiles(changes) ==
    /\ panicked = ""
    /\ \E pre \in {didModifyFilesCollect(Sess, overlays, disk, changes)} :
       \E order \in Orders(DOMAIN pre.byView) :
          /\ Commit(invalidateViews(pre.st, pre.byView, order), pre.overlays, disk, query.snap)
          /\ overlays' = pre.overlays
    /\ UNCHANGED <<disk, query, OtherVars>>

\* The goroutine createView starts: Snapshot.initialize returns, and the
\* reference of the goroutine is released.
Initialized(s) ==
    /\ panicked = ""
    /\ snaps[s].bg
    /\ Commit(release([Sess EXCEPT !.snaps[s].bg = FALSE, !.snaps[s].init = TRUE], s),
              overlays, disk, query.snap)
    /\ UNCHANGED <<overlays, disk, query, OtherVars>>

\* The caller of NewView, or the goroutine that diagnoses the snapshots
\* DidModifyFiles returned, calls its release function.
CallerRelease(s) ==
    /\ panicked = ""
    /\ snaps[s].leases > 0
    /\ Commit(callerRelease(Sess, s), overlays, disk, query.snap)
    /\ UNCHANGED <<overlays, disk, query, OtherVars>>

IdleQuery ==
    [pc |-> "idle", uri |-> "", view |-> 0, snap |-> 0, seen |-> EmptyMap,
     reread |-> FALSE, stable |-> TRUE]

\* beginFileRequest, first half: Session.ViewOf.
QueryViewOf(uri) ==
    /\ panicked = ""
    /\ query.pc = "idle"
    /\ LET r == viewOfLocked(Sess, uri)
       IN  /\ r.err = ""
           /\ Commit(r.st, overlays, disk, query.snap)
           /\ query' = [IdleQuery EXCEPT !.pc = "viewOf", !.uri = uri, !.view = r.view]
    /\ UNCHANGED <<overlays, disk, OtherVars>>

\* beginFileRequest, second half: View.Snapshot, which fails once the view is
\* shut down, and the read of the file of the request.
QuerySnapshot ==
    /\ panicked = ""
    /\ query.pc = "viewOf"
    /\ LET vs == viewSnapshot(Sess, query.view)
           s == vs.snap
           r == snapshotReadFile(vs.st, overlays, disk, s, query.uri)
       IN  IF vs.err # ""
           THEN query' = IdleQuery /\ Commit(vs.st, overlays, disk, query.snap)
           ELSE /\ Commit(r.st, overlays, disk, s)
                /\ query' = [query EXCEPT !.pc = "held", !.snap = s,
                                          !.seen = MapSet(EmptyMap, query.uri, r.fh)]
    /\ UNCHANGED <<overlays, disk, OtherVars>>

\* The handler reads a file through its snapshot.  (History: stable records
\* that every repeated read returned the handle of the first, reread that a
\* file was read again after the file system had changed it.)
QueryReadFile(uri) ==
    /\ panicked = ""
    /\ query.pc = "held"
    /\ LET r == snapshotReadFile(Sess, overlays, disk, query.snap, uri)
       IN  /\ Commit(r.st, overlays, disk, query.snap)
           /\ query' =
                IF uri \in DOMAIN query.seen
                THEN [query EXCEPT
                        !.stable = @ /\ r.fh = query.seen[uri],
                        !.reread = @ \/ FSReadFile(overlays, disk, uri) # query.seen[uri]]
                ELSE [query EXCEPT !.seen = MapSet(@, uri, r.fh)]
    /\ UNCHANGED <<overlays, disk, OtherVars>>

\* The handler type-checks package id through its snapshot: the snapshot
\* keeps a handle for id and for every package id imports that has none.
QueryTypeCheck(id) ==
    /\ panicked = ""
    /\ query.pc = "held"
    /\ snaps[query.snap].refs > 0
    /\ LET old == snaps[query.snap].pkgs
           new == [p \in DOMAIN old \cup ForwardDependencies({id}) |->
                      IF p \in DOMAIN old THEN old[p] ELSE query.snap]
       IN  /\ new # old
           /\ Commit([Sess EXCEPT !.snaps[query.snap].pkgs = new], overlays, disk, query.snap)
    /\ UNCHANGED <<overlays, disk, query, OtherVars>>

\* The handler returns: its deferred release runs.
QueryRelease ==
    /\ panicked = ""
    /\ query.pc = "held"
    /\ Commit(release(Sess, query.snap), overlays, disk, 0)
    /\ query' = IdleQuery
    /\ UNCHANGED <<overlays, disk, OtherVars>>

\* What the editor does to the one file of the lifecycle specification.
LifecycleFile == "/w/sub/b.go"
LifecycleMods ==
    {Modification(LifecycleFile, "Open", FALSE, 1, Bytes(<<"x">>), "go")}
    \cup CloseMods({LifecycleFile})

\* Spec: the life of views and snapshots.  Views are created over both
\* folders, removed, reset and shut down while one file is opened and closed
\* and references are acquired and released.
Next ==
    \/ \E folder \in Folders : NewView(folder) /\ Len(viewObjs') <= MaxLifecycleViews
    \/ \E vid \in 1..Len(viewObjs) : RemoveView(vid)
    \/ ResetView(LifecycleFile) /\ Len(viewObjs') <= MaxLifecycleViews
    \/ SessionShutdown
    \/ \E m \in LifecycleMods : DidModifyFiles(<<m>>)
    \/ \E s \in 1..Len(snaps) : Initialized(s)
    \/ \E s \in 1..Len(snaps) : CallerRelease(s)
    \/ QueryViewOf(LifecycleFile)
    \/ QuerySnapshot
    \/ QueryRelease

InitSpec ==
    /\ overlays = EmptyMap
    /\ disk = [u \in GoFiles |-> DiskFile(<<>>)]
    /\ fsErr = ""
    /\ fsFailed = FALSE
    /\ lastEdit = [u \in GoFiles |-> NoEdit]
    /\ read = NoRead
    /\ selection = NoSelection
    /\ InitMemo
    /\ InitSession

Spec == InitSpec /\ [][Next]_vars

\* SpecRead: one view over the workspace, while one request handler, of a
\* request about /w/sub/b.go, reads files through the snapshot it holds and
\* the editor opens, changes, saves and closes /w/a.go.
EditedFile == "/w/a.go"
RequestFile == "/w/sub/b.go"
ReadMods ==
    {m \in EditorMods : m.URI = EditedFile /\ (m.Action = "Save" => m.Text.isNil)}

NextRead ==
    \/ NewView("/w")
    \/ \E m \in ReadMods : DidModifyFiles(<<m>>)
    \/ \E s \in 1..Len(snaps) : Initialized(s)
    \/ \E s \in 1..Len(snaps) : CallerRelease(s)
    \/ QueryViewOf(RequestFile)
    \/ QuerySnapshot
    \/ \E uri \in GoFiles : QueryReadFile(uri)
    \/ QueryRelease

SpecRead == InitSpec /\ [][NextRead]_vars

\* ------------------------------------------------------------------------
\* Claims about references and cancellation (Spec).
\* ------------------------------------------------------------------------

\* The references to snapshot s that are outstanding: the one of its view
\* while s is current, the background initializer's, those handed to the
\* callers of NewView and DidModifyFiles, and the request handler's.
Current(s) == \E v \in 1..Len(viewObjs) : viewObjs[v].snapshot = s
Outstanding(s) ==
    (IF Current(s) THEN 1 ELSE 0) + (IF snaps[s].bg THEN 1 ELSE 0) + snaps[s].leases
    + (IF query.pc = "held" /\ query.snap = s THEN 1 ELSE 0)

C9_CurrentNotCancelled ==
    \A v \in 1..Len(viewObjs) :
        viewObjs[v].snapshot # 0 => snaps[viewObjs[v].snapshot].cancels = 0

\* The first snapshot of a view is still current after the initializer and
\* the caller of NewView have released theirs, and after the request handler
\* has acquired one more: only the view and the handler hold it.
C9_Witness ==
    \E v \in 1..Len(viewObjs) :
        LET s == viewObjs[v].snapshot
        IN  /\ s # 0
            /\ snaps[s].init /\ ~snaps[s].bg /\ snaps[s].leases = 0
            /\ query.pc = "held" /\ query.snap = s
            /\ snaps[s].refs = 2
            /\ \E t \in 1..Len(snaps) : snaps[t].cancels > 0

\* C13: the first snapshot of a new view holds three references, the view's,
\* the background initializer's and the caller's; while the initialization
\* runs, the snapshot holds the initializer's reference besides those of the
\* others, so it is not destroyed even when the caller has released its
\* reference and the view is shut down.
C13_InitializationHoldsReference ==
    \A s \in 1..Len(snaps) :
        snaps[s].bg =>
            /\ snaps[s].refs >= 1
            /\ snaps[s].refs = Outstanding(s)
            /\ (Current(s) /\ snaps[s].leases = 1 /\ query.snap # s) => snaps[s].refs = 3

\* Reached: the initialization of a first snapshot still runs after the
\* caller of NewView released its reference and the view was shut down (its
\* background context cancelled): one reference is left.
C13_Witness ==
    \E s \in 1..Len(snaps) :
        /\ snaps[s].bg /\ snaps[s].parent = 0
        /\ ~Current(s) /\ snaps[s].leases = 0
        /\ snaps[s].cancels = 1
        /\ snaps[s].refs = 1

\* ------------------------------------------------------------------------
\* Claims about reading files through a snapshot (SpecRead).
\* ------------------------------------------------------------------------

\* C8: every repeated read of a file through the snapshot the handler holds
\* returned the handle (identity and content) the first read of that file
\* returned, whatever was modified in between.
C8_RepeatedReadsAgree == query.pc = "held" => query.stable

\* The handler has read a file again, through a snapshot that is superseded,
\* when the file system no longer held what the first read returned.
C8_Witness ==
    /\ query.pc = "held"
    /\ query.reread
    /\ snaps[query.snap].superseded

\* C1: every file the handler has read through its snapshot has the content
\* it had while the snapshot was current (for a file that had one content
\* all that time, that content).
C1_ReadsContentOfSnapshot ==
    query.pc = "held" =>
        \A u \in DOMAIN query.seen :
            LET h == snaps[query.snap].had[u]
            IN  h # Varied => query.seen[u].hash = h

\* ------------------------------------------------------------------------
\* SpecInval: one view over the workspace, whose files change on disk (the
\* file watcher reports one file, or both at once) while one request handler
\* type-checks packages through the snapshot it holds.
\* ------------------------------------------------------------------------

ChangedOnDisk == {m \in DiskMods(GoFiles) : m.Action = "Change"}
InvalBatches ==
    {b \in BatchesUpTo(ChangedOnDisk, MaxBatch) :
        b # <<>> /\ (Len(b) > 1 => b[1].URI = EditedFile /\ b[2].URI = RequestFile)}

NextInval ==
    \/ NewView("/w")
    \/ \E changes \in InvalBatches : DidModifyFiles(changes)
    \/ \E s \in 1..Len(snaps) : Initialized(s)
    \/ \E s \in 1..Len(snaps) : CallerRelease(s)
    \/ QueryViewOf(RequestFile)
    \/ QuerySnapshot
    \/ \E id \in PkgIDs : QueryTypeCheck(id)
    \/ QueryRelease

SpecInval == InitSpec /\ [][NextInval]_vars

\* The packages a change of the files uris must invalidate: a package that
\* holds one of the files, and a package that imports such a package,
\* directly or through other packages.
MustInvalidate(uris) ==
    {p \in PkgIDs : ForwardDependencies({p}) \cap PackagesOfFiles(uris) # {}}

\* C4: a snapshot that DidModifyFiles makes of the current snapshot of a view
\* has no cached entry for a package that holds a changed file or depends on
\* such a package, and has, for every other package, exactly the entry of
\* the previous snapshot.
C4_Step ==
    \A t \in (Len(snaps) + 1)..Len(snaps') :
        snaps'[t].parent # 0 =>
            LET old == snaps[snaps'[t].parent].pkgs
                new == snaps'[t].pkgs
                invalid == MustInvalidate(snaps'[t].changed)
            IN  /\ DOMAIN new = DOMAIN old \ invalid
                /\ \A p \in DOMAIN new : new[p] = old[p]

C4_Invalidation == [][C4_Step]_vars

\* /w/a.go has changed: the snapshot made of a snapshot that had entries for
\* all three packages has lost those of "w" and "cmd", and has kept the one
\* of "sub", made for the previous snapshot.
C4_Witness ==
    \E t \in 1..Len(snaps) :
        /\ snaps[t].parent # 0
        /\ snaps[t].changed = {"/w/a.go"}
        /\ snaps[t].invalidated = {"w", "cmd"}
        /\ DOMAIN snaps[t].pkgs = {"sub"}
        /\ snaps[t].pkgs["sub"] = snaps[t].parent

\* ------------------------------------------------------------------------
\* The text-synchronisation handlers of the server.
\* ------------------------------------------------------------------------

\* protocol.Range on the one line of a file: the positions are columns.  A
\* nil *Range is NoRange.
Positions == 0..MaxLen
NoRange == [isNil |-> TRUE, start |-> 0, end |-> 0]
Ranges == {[isNil |-> FALSE, start |-> a, end |-> b] : a, b \in Positions}

\* protocol.TextDocumentContentChangeEvent
ContentChangeEvents == {[Range |-> r, Text |-> t] : r \in Ranges \cup {NoRange}, t \in Contents}
ContentChanges == BatchesUpTo(ContentChangeEvents, MaxEvents)

\* protocol.Mapper.RangeOffsets: the byte offsets of a range, or an error for
\* a position outside the content.
RangeOffsets(b, r) ==
    IF r.start > Len(b) \/ r.end > Len(b)
    THEN [err |-> "column is beyond end of line", start |-> 0, end |-> 0]
    ELSE [err |-> "", start |-> r.start, end |-> r.end]

\* The check of applyIncrementalChanges left out.
invalidRange_Never(start, end) == FALSE

\* The check of applyIncrementalChanges on the offsets of a change.
invalidRange(start, end) == end < start

\* bytes.Buffer.Bytes after writing content[:start], text and content[end:]: a
\* buffer nothing was written to returns nil.
splice(b, start, end, text) ==
    LET new == SubSeq(b, 1, start) \o text \o SubSeq(b, end + 1, Len(b))
    IN  IF new = <<>> THEN NilText ELSE Bytes(new)

\* The loop of applyIncrementalChanges.
RECURSIVE applyChanges(_, _)
applyChanges(content, changes) ==
    IF changes = <<>> THEN [err |-> "", text |-> content]
    ELSE
    LET change == Head(changes)
        ro == RangeOffsets(content.b, change.Range)
    IN  IF change.Range.isNil
        THEN [err |-> "unexpected nil range for change", text |-> NilText]
        ELSE IF ro.err # "" THEN [err |-> ro.err, text |-> NilText]
        ELSE IF invalidRange(ro.start, ro.end)
        THEN [err |-> "invalid range for content change", text |-> NilText]
        ELSE applyChanges(splice(content.b, ro.start, ro.end, change.Text), Tail(changes))

\* server.applyIncrementalChanges
applyIncrementalChanges(ovs, dsk, uri, changes) ==
    LET fh == FSReadFile(ovs, dsk, uri)
    IN  IF fh.readErr THEN [err |-> "file not found", text |-> NilText]
        ELSE applyChanges(fh.content, changes)

\* server.changedText
changedText(ovs, dsk, uri, changes) ==
    IF changes = <<>> THEN [err |-> "no content changes provided", text |-> NilText]
    ELSE IF Len(changes) = 1 /\ changes[1].Range.isNil
    THEN [err |-> "", text |-> Bytes(changes[1].Text)]
    ELSE applyIncrementalChanges(ovs, dsk, uri, changes)

\* History: a list of changes holds one whose range ends before it starts.
Inverted(changes) ==
    \E i \in 1..Len(changes) :
        ~changes[i].Range.isNil /\ changes[i].Range.end < changes[i].Range.start

\* Snapshot.filesInDir: the files the snapshot holds that lie under dir.
filesInDir(snapshot, dir) ==
    {u \in DOMAIN snapshot.files : u # dir /\ IsPrefix(PathOf[dir], PathOf[u])}

RECURSIVE SetToSeq(_)
SetToSeq(S) ==
    IF S = {} THEN <<>>
    ELSE LET x == CHOOSE y \in S : TRUE IN <<x>> \o SetToSeq(S \ {x})

\* Session.ExpandModificationsToDirectories: a change of a directory becomes
\* a change of every file under it that a current snapshot has observed.
\* (The one directory the file watcher reports here holds one file.)
RECURSIVE ExpandModificationsToDirectories(_, _)
ExpandModificationsToDirectories(st, changes) ==
    IF changes = <<>> THEN <<>>
    ELSE
    LET c == Head(changes)
        current == {st.viewObjs[st.views[i]].snapshot : i \in 1..Len(st.views)} \ {0}
        expanded == UNION {filesInDir(st.snaps[s], c.URI) : s \in current}
        these == IF expanded = {} THEN <<c>>
                 ELSE [i \in 1..Cardinality(expanded) |->
                         Modification(SetToSeq(expanded)[i], c.Action, c.OnDisk, 0, NilText, "")]
    IN  these \o ExpandModificationsToDirectories(st, Tail(changes))

\* server.warnAboutModifyingGeneratedFiles, for a file that was not changed
\* before: the file is read through the current snapshot of its view.
warnAboutModifyingGeneratedFiles(st, ovs, dsk, uri) ==
    LET r == viewOfLocked(st, uri)
        s == r.st.viewObjs[r.view].snapshot
    IN  IF uri \in changedFiles \/ r.err # "" THEN st
        ELSE IF s = 0 THEN r.st
        ELSE release(snapshotReadFile(Acquire(r.st, s), ovs, dsk, s, uri).st, s)

\* server.didModifyFiles, with the session as st0: the modifications reach
\* the session unless the server is shut down, and the goroutine that
\* diagnoses the new snapshots holds their references until it is done.
didModifyFiles(st0, method, uri, modifications, inverted) ==
    IF state = "serverShutDown"
    THEN /\ CommitSession(st0, overlays, disk, query.snap)
         /\ rpc' = [method |-> method, uri |-> uri, err |-> "server is shut down",
                    inverted |-> inverted]
         /\ UNCHANGED <<overlays, changedFiles>>
    ELSE \E pre \in {didModifyFilesCollect(st0, overlays, disk,
                        ExpandModificationsToDirectories(st0, modifications))} :
         \E order \in Orders(DOMAIN pre.byView) :
            LET st1 == invalidateViews(pre.st, pre.byView, order)
                warn == method = "didChange" /\ pre.err = ""
                st2 == IF warn
                       THEN warnAboutModifyingGeneratedFiles(st1, pre.overlays, disk, uri)
                       ELSE st1
            IN  /\ CommitSession(st2, pre.overlays, disk, query.snap)
                /\ overlays' = pre.overlays
                /\ changedFiles' = IF warn THEN changedFiles \cup {uri} ELSE changedFiles
                /\ rpc' = [method |-> method, uri |-> uri, err |-> pre.err,
                           inverted |-> inverted]

\* filepath.Dir of the path of a file.
DirOf == ("/w/a.go" :> "/w") @@ ("/w/sub/b.go" :> "/w/sub")

\* serverState, in its order.
StateRank ==
    ("serverCreated" :> 0) @@ ("serverInitializing" :> 1) @@
    ("serverInitialized" :> 2) @@ ("serverShutDown" :> 3)

\* server.addFolders for one folder, the server being in serverState: the
\* view is created (server.addView, Session.NewView) and the handler waits
\* until its snapshot is initialized; addView fails before the server is
\* initialized, and NewView when the session has a view of the folder.
addFolders(st, folder, serverState) ==
    LET st1 == createView(st, getViewDefinition(overlays, disk, folder), folder, 0)
        st2 == [st1 EXCEPT !.views = Append(@, Len(st1.viewObjs)), !.viewMap = EmptyMap]
    IN  IF StateRank[serverState] < StateRank["serverInitialized"]
           \/ \E i \in 1..Len(st.views) : st.viewObjs[st.views[i]].folder = folder
        THEN st
        ELSE [st2 EXCEPT !.snaps[Len(st2.snaps)].init = TRUE]

\* server.DidOpen
DidOpen(uri, text) ==
    /\ panicked = ""
    /\ LET r == viewOfLocked(Sess, uri)
           st0 == IF r.err # "" THEN addFolders(Sess, DirOf[uri], state) ELSE r.st
       IN  didModifyFiles(st0, "didOpen", uri,
                          <<Modification(uri, "Open", FALSE, 1, text, "go")>>, FALSE)
    /\ UNCHANGED <<disk, query, fsErr, fsFailed, lastEdit, read, selection, memoVars, srvVars, state>>

\* What changedText makes of the lists of changes an editor may send for
\* uri (and, as history, whether the list held an inverted range).
ChangedTexts(uri) ==
    {[r |-> changedText(overlays, disk, uri, changes), inverted |-> Inverted(changes)] :
        changes \in ContentChanges}

\* server.DidChange, for some list of content changes.
DidChange(uri) ==
    /\ panicked = ""
    /\ \E c \in ChangedTexts(uri) :
          IF c.r.err # ""
          THEN /\ rpc' = [method |-> "didChange", uri |-> uri, err |-> c.r.err,
                          inverted |-> c.inverted]
               /\ UNCHANGED <<overlays, views, viewMap, viewObjs, snaps, panicked,
                              changedFiles>>
          ELSE didModifyFiles(Sess, "didChange", uri,
                   <<Modification(uri, "Change", FALSE, EditorVersion(uri), c.r.text, "")>>,
                   c.inverted)
    /\ UNCHANGED <<disk, query, fsErr, fsFailed, lastEdit, read, selection, memoVars, srvVars, state>>

\* server.DidSave
DidSave(uri, text) ==
    /\ panicked = ""
    /\ didModifyFiles(Sess, "didSave", uri,
                      <<Modification(uri, "Save", FALSE, 0, text, "")>>, FALSE)
    /\ UNCHANGED <<disk, query, fsErr, fsFailed, lastEdit, read, selection, memoVars, srvVars, state>>

\* server.DidClose
DidClose(uri) ==
    /\ panicked = ""
    /\ didModifyFiles(Sess, "didClose", uri,
                      <<Modification(uri, "Close", FALSE, -1, NilText, "")>>, FALSE)
    /\ UNCHANGED <<disk, query, fsErr, fsFailed, lastEdit, read, selection, memoVars, srvVars, state>>

\* server.DidChangeWatchedFiles
DidChangeWatchedFiles(modifications) ==
    /\ panicked = ""
    /\ didModifyFiles(Sess, "didChangeWatchedFiles", "", modifications, FALSE)
    /\ UNCHANGED <<disk, query, fsErr, fsFailed, lastEdit, read, selection, memoVars, srvVars, state>>

\* A server that shuts its session down at every Shutdown request.
shutdownSession_EveryRequest(st, serverState) ==
    shutdownAll([st EXCEPT !.views = <<>>, !.viewMap = EmptyMap], st.views)

\* What server.Shutdown does to the session, the server being in
\* serverState: Session.Shutdown, unless the server is shut down.
shutdownSession(st, serverState) ==
    IF serverState # "serverShutDown"
    THEN shutdownAll([st EXCEPT !.views = <<>>, !.viewMap = EmptyMap], st.views)
    ELSE st

\* server.Shutdown
Shutdown ==
    /\ panicked = ""
    /\ state' = "serverShutDown"
    /\ CommitSession(shutdownSession(Sess, state), overlays, disk, query.snap)
    /\ rpc' = [method |-> "shutdown", uri |-> "", err |-> "", inverted |-> FALSE]
    /\ UNCHANGED <<overlays, disk, query, fsErr, fsFailed, lastEdit, read, selection, memoVars, srvVars, changedFiles>>

\* What the file watcher reports: a file, or the directory /w/sub.
WatchedMods == DiskMods(GoFiles \cup {"/w/sub"})

\* SpecSync: the editor opens either file and changes, saves and closes
\* EditedFile, and the file watcher reports changes, while the goroutines of
\* the server finish.
NextSync ==
    \/ \E uri \in GoFiles, text \in Texts : DidOpen(uri, text)
    \/ DidChange(EditedFile)
    \/ \E text \in Texts \cup {NilText} : DidSave(EditedFile, text)
    \/ DidClose(EditedFile)
    \/ \E m \in WatchedMods : DidChangeWatchedFiles(<<m>>)
    \/ Shutdown
    \/ \E s \in 1..Len(snaps) : Initialized(s)
    \/ \E s \in 1..Len(snaps) : CallerRelease(s)

SpecSync == InitSpec /\ [][NextSync]_vars

\* C7: a didChange notification with a change whose range ends before it
\* starts returns an error, and leaves every overlay (content, hash, version
\* and saved flag) and every view and snapshot as they were.
C7_Step ==
    (rpc'.method = "didChange" /\ rpc'.inverted) =>
        /\ rpc'.err # ""
        /\ overlays' = overlays
        /\ views' = views /\ viewObjs' = viewObjs /\ snaps' = snaps

C7_InvertedRangeRejected == [][C7_Step]_vars

\* The handler has rejected, for its range, a change of a file that is open.
C7_Witness ==
    /\ rpc.method = "didChange" /\ rpc.inverted
    /\ rpc.err = "invalid range for content change"
    /\ rpc.uri \in DOMAIN overlays

\* ------------------------------------------------------------------------
\* SpecRecreate: views over both folders while go.mod files come and go on
\* disk and the file watcher reports them, so that DidModifyFiles looks at
\* the view definitions again; views are removed and the session shut down,
\* and updateViewLocked is called with a view the caller kept.
\* ------------------------------------------------------------------------

\* The go.mod above both folders, which is written and removed, and the one
\* of the inner folder, which is there from the start or never.
RootModFile == "/go.mod"
\* The go.work file of the workspace, which does not exist.
GoWorkFile == "/go.work"
GoModFiles == {RootModFile, "/w/sub/go.mod"}
ModStates == {NoFile, DiskFile(<<>>)}
RecreateMods == DiskMods(GoModFiles)

\* s.updateViewLocked(ctx, view, view.viewDefinition, view.folder), with any
\* view created so far; the error it returns is recorded.
UpdateViewLocked(vid) ==
    /\ panicked = ""
    /\ LET st1 == updateViewLocked(Sess, overlays, disk, vid,
                                   viewObjs[vid].def, viewObjs[vid].folder)
       IN  /\ CommitSession(st1, overlays, disk, query.snap)
           /\ rpc' = [method |-> "updateViewLocked", uri |-> viewObjs[vid].folder,
                      err |-> IF st1.panicked = "" /\ IndexOf(views, vid) = 0
                              THEN "view not found" ELSE "",
                      inverted |-> FALSE]
    /\ UNCHANGED <<overlays, disk, query, OtherVars>>

NextRecreate ==
    \/ \E folder \in Folders : NewView(folder)
    \/ \E f \in ModStates : DiskWrite(RootModFile, f)
    \/ \E m \in RecreateMods : DidModifyFiles(<<m>>)
    \/ \E vid \in 1..Len(viewObjs) : RemoveView(vid)
    \/ SessionShutdown
    \/ \E vid \in 1..Len(viewObjs) : UpdateViewLocked(vid)
    \/ \E s \in 1..Len(snaps) : Initialized(s)
    \/ \E s \in 1..Len(snaps) : CallerRelease(s)

InitRecreate ==
    /\ overlays = EmptyMap
    /\ disk \in {d @@ (GoWorkFile :> NoFile) : d \in
                    {d \in [GoFiles \cup GoModFiles -> ModStates] :
                        \A u \in GoFiles : d[u] = DiskFile(<<>>)}}
    /\ fsErr = ""
    /\ fsFailed = FALSE
    /\ lastEdit = [u \in GoFiles |-> NoEdit]
    /\ read = NoRead
    /\ selection = NoSelection
    /\ InitMemo
    /\ InitSession

SpecRecreate == InitRecreate /\ [][NextRecreate]_vars

\* C20 (as the specification states it): updateViewLocked of a view that was
\* shut down returns an error, and the process goes on.
C20_Step ==
    \A vid \in 1..Len(viewObjs) :
        (viewObjs[vid].snapshot = 0 /\ UpdateViewLocked(vid))
            => (rpc'.err # "" /\ panicked' = "")
C14_Holds(st, ovs) ==
    /\ Len(st.views) = Len(views)
    /\ \A i \in 1..Len(views) :
         LET old == views[i]
             new == st.views[i]
             def == getViewDefinition(ovs, disk, viewObjs[old].folder)
         IN  IF def # viewObjs[old].def
             THEN /\ st.viewObjs[old].snapshot = 0
                  /\ new > Len(viewObjs)
                  /\ st.viewObjs[new].def = def
                  /\ st.viewObjs[new].folder = viewObjs[old].folder
                  /\ st.viewObjs[new].snapshot # 0
             ELSE /\ new = old
                  /\ st.viewObjs[old].snapshot # 0
                  /\ st.viewObjs[old].def = viewObjs[old].def

\* C14: in every state, when a batch makes DidModifyFiles look at the view
\* definitions again, the session has as many views after it as before; a
\* view whose definition is now another one is shut down, and a new view
\* with that definition and the same folder stands in its place in s.views;
\* a view whose definition is the same stays where it is, the same object,
\* not shut down.
C14_RecreatedInPlace ==
    panicked = "" =>
        \A m \in {c \in RecreateMods : checkViews(<<c>>)} :
            LET pre == didModifyFilesCollect(Sess, overlays, disk, <<m>>)
            IN  \A order \in Orders(DOMAIN pre.byView) :
                    C14_Holds(invalidateViews(pre.st, pre.byView, order), pre.overlays)

\* Reached: of two views, the first was recreated in place as the third view
\* object, with the go.mod above both folders as its definition, while the
\* second, defined by the go.mod of its own folder, was kept.
C14_Witness ==
    /\ views = <<3, 2>>
    /\ viewObjs[1].snapshot = 0
    /\ viewObjs[1].folder = "/w" /\ viewObjs[3].folder = "/w"
    /\ viewObjs[1].def = "/w/sub/go.mod" /\ viewObjs[3].def = "/go.mod"
    /\ viewObjs[2].def = "/w/sub/go.mod" /\ viewObjs[2].snapshot # 0


\* Batches of every kind: events of the file watcher and of the editor on a
\* go.mod file, on the go.work file and on a Go file, alone and together.
ViewCheckBatches ==
    LET disk1(u, a) == Modification(u, a, TRUE, 0, NilText, "")
        open(u) == Modification(u, "Open", FALSE, 1, Bytes(<<>>), "go")
        save(u) == Modification(u, "Save", FALSE, 0, NilText, "")
        close(u) == Modification(u, "Close", FALSE, -1, NilText, "")
    IN  {<<disk1(RootModFile, a)>> : a \in {"Create", "Change", "Delete"}}
            \cup {<<disk1(GoWorkFile, a)>> : a \in {"Create", "Change"}}
            \cup {<<open(RootModFile)>>, <<open(GoWorkFile)>>, <<open(EditedFile)>>,
                  <<open(RootModFile), save(RootModFile)>>,
                  <<open(GoWorkFile), save(GoWorkFile)>>,
                  <<open(GoWorkFile), close(GoWorkFile)>>,
                  <<disk1(RootModFile, "Change"), disk1(EditedFile, "Change")>>,
                  <<disk1(EditedFile, "Change"), disk1(RootModFile, "Delete")>>}

\* The batches of which C25 says that the view definitions are evaluated
\* again.
C25_Reevaluates(changes) ==
    \E i \in 1..Len(changes) :
        \/ /\ Base(changes[i].URI) = "go.work"
           /\ (changes[i].Action = "Save" \/ changes[i].OnDisk)
        \/ /\ Base(changes[i].URI) = "go.mod"
           /\ changes[i].Action \notin {"Change", "Save"}

NonFileURI == "untitled:Untitled-1"
RequestModFile == "/w/sub/go.mod"
RequestURIs == {RequestFile, RequestModFile, NonFileURI}
ExpectKinds == {"UnknownKind", "Go"}

\* protocol.DocumentURI.IsFile
IsFile(uri) == uri \in DOMAIN PathOf

\* Snapshot.FileKind of a file that has no overlay: by its name.
FileKind(fh) ==
    IF isGoMod(fh.uri) THEN "Mod"
    ELSE IF fh.uri \in GoFiles THEN "Go"
    ELSE "UnknownKind"

\* Snapshot.ReadFile with a context: the read of a file the snapshot has no
\* handle for goes to the file source, which may fail when the context is
\* cancelled.
snapshotReadFileCtx(st, ovs, dsk, s, uri, ctxDone) ==
    IF uri \in DOMAIN st.snaps[s].files
    THEN {[err |-> "", st |-> st, fh |-> st.snaps[s].files[uri]]}
    ELSE {[err |-> r.err,
           st  |-> IF r.err = "" THEN [st EXCEPT !.snaps[s].files = MapSet(@, uri, r.fh)]
                   ELSE st,
           fh  |-> r.fh] : r \in ReadFile(ovs, dsk, uri, ctxDone)}

\* The release() of beginFileRequest before it returns a failure.
releaseBeforeReturn_Forgets(st, s) == st

releaseBeforeReturn(st, s) == release(st, s)

\* History: the outcome of a beginFileRequest.
Outcome(uri, outcome, err) ==
    [method |-> "beginFileRequest", uri |-> uri, err |-> err, inverted |-> FALSE,
     outcome |-> outcome]

\* beginFileRequest up to Session.ViewOf.
BeginViewOf(uri) ==
    /\ panicked = ""
    /\ query.pc = "idle"
    /\ LET r == viewOfLocked(Sess, uri)
       IN  IF ~IsFile(uri)
           THEN /\ CommitSession(Sess, overlays, disk, query.snap)
                /\ query' = IdleQuery
                /\ rpc' = Outcome(uri, "not a file", "")
           ELSE IF r.err # ""
           THEN /\ CommitSession(r.st, overlays, disk, query.snap)
                /\ query' = IdleQuery
                /\ rpc' = Outcome(uri, "no view", r.err)
           ELSE /\ Commit(r.st, overlays, disk, query.snap)
                /\ query' = [IdleQuery EXCEPT !.pc = "viewOf", !.uri = uri, !.view = r.view]
    /\ UNCHANGED <<overlays, disk, OtherVars>>

\* beginFileRequest from View.Snapshot on: on a failure the reference is
\* released and the cleanup returned does nothing; on success the cleanup is
\* the release function (QueryRelease).
BeginSnapshot(expectKind, ctxDone) ==
    /\ panicked = ""
    /\ query.pc = "viewOf"
    /\ LET vs == viewSnapshot(Sess, query.view)
           s == vs.snap
       IN  IF vs.err # ""
           THEN /\ CommitSession(vs.st, overlays, disk, query.snap)
                /\ query' = IdleQuery
                /\ rpc' = Outcome(query.uri, "view shut down", vs.err)
           ELSE \E r \in snapshotReadFileCtx(vs.st, overlays, disk, s, query.uri, ctxDone) :
                  IF r.err # ""
                  THEN /\ CommitSession(releaseBeforeReturn(r.st, s), overlays, disk, query.snap)
                       /\ query' = IdleQuery
                       /\ rpc' = Outcome(query.uri, "read error", r.err)
                  ELSE IF expectKind # "UnknownKind" /\ FileKind(r.fh) # expectKind
                  THEN /\ CommitSession(releaseBeforeReturn(r.st, s), overlays, disk, query.snap)
                       /\ query' = IdleQuery
                       /\ rpc' = Outcome(query.uri, "wrong kind", "")
                  ELSE /\ CommitSession(r.st, overlays, disk, s)
                       /\ query' = [query EXCEPT !.pc = "held", !.snap = s,
                                                 !.seen = MapSet(EmptyMap, query.uri, r.fh)]
                       /\ rpc' = Outcome(query.uri, "ok", "")
    /\ UNCHANGED <<overlays, disk, OtherVars>>

NextRequest ==
    \/ \E folder \in Folders : NewView(folder) /\ Len(viewObjs') <= MaxLifecycleViews
    \/ \E vid \in 1..Len(viewObjs) : RemoveView(vid)
    \/ ResetView(RequestFile) /\ Len(viewObjs') <= MaxLifecycleViews
    \/ SessionShutdown
    \/ \E s \in 1..Len(snaps) : Initialized(s)
    \/ \E s \in 1..Len(snaps) : CallerRelease(s)
    \/ \E uri \in RequestURIs : BeginViewOf(uri)
    \/ \E expectKind \in ExpectKinds, ctxDone \in BOOLEAN : BeginSnapshot(expectKind, ctxDone)
    \/ QueryRelease

InitRequest ==
    /\ overlays = EmptyMap
    /\ disk = [u \in GoFiles \cup {RequestModFile} |-> DiskFile(<<>>)]
    /\ fsErr = ""
    /\ fsFailed = FALSE
    /\ lastEdit = [u \in GoFiles |-> NoEdit]
    /\ read = NoRead
    /\ selection = NoSelection
    /\ InitMemo
    /\ InitSession

SpecRequest == InitRequest /\ [][NextRequest]_vars

\* The views of the session.
SessionViews == {views[i] : i \in 1..Len(views)}

\* C11: in every state, the views that are shut down are those that have
\* left the session (removed, replaced by their recreation, or shut down
\* with the session); View.Snapshot on a view that is shut down returns an
\* error and changes no reference count; on a live view it returns the
\* current snapshot with one more reference, and the release function gives
\* exactly that reference back.
C11_SnapshotOfView ==
    \A vid \in 1..Len(viewObjs) :
        LET r == viewSnapshot(Sess, vid)
        IN  IF viewObjs[vid].snapshot = 0
            THEN vid \notin SessionViews /\ r.err # "" /\ r.st = Sess
            ELSE /\ vid \in SessionViews
                 /\ r.err = ""
                 /\ r.snap = viewObjs[vid].snapshot
                 /\ r.st.snaps[r.snap].refs = snaps[r.snap].refs + 1
                 /\ release(r.st, r.snap) = Sess

\* Reached: a request found the view it had looked up shut down, the view
\* having been recreated in place in the meantime; the recreation is the
\* one view of the session.
C11_Witness ==
    /\ rpc.method = "beginFileRequest" /\ rpc["outcome"] = "view shut down"
    /\ views = <<2>>
    /\ viewObjs[1].snapshot = 0 /\ viewObjs[2].snapshot # 0
    /\ viewObjs[2].folder = viewObjs[1].folder

\* C12: whatever the outcome of beginFileRequest, and once the cleanup it
\* returned has run, every snapshot has exactly the references that are
\* outstanding: a request that failed holds none (the one it acquired was
\* released once), a request that succeeded holds one until its cleanup.
C12_CleanupReleasesOnce ==
    /\ \A s \in 1..Len(snaps) : snaps[s].refs = Outstanding(s)
    /\ (rpc.method = "beginFileRequest" /\ rpc["outcome"] # "ok") => query.pc = "idle"

\* Reached: a request that expected a Go file was about a go.mod file, and
\* the snapshot it had acquired has the references of its view alone.
C12_Witness ==
    /\ rpc.method = "beginFileRequest" /\ rpc["outcome"] = "wrong kind"
    /\ \E s \in 1..Len(snaps) :
         /\ Current(s) /\ RequestModFile \in DOMAIN snaps[s].files
         /\ ~snaps[s].bg /\ snaps[s].leases = 0 /\ snaps[s].refs = 1

\* The other outcomes of beginFileRequest are reached too.
C12_NotAFile == rpc.method = "beginFileRequest" /\ rpc["outcome"] = "not a file"
C12_NoView == rpc.method = "beginFileRequest" /\ rpc["outcome"] = "no view"
C12_ReadError == rpc.method = "beginFileRequest" /\ rpc["outcome"] = "read error"
C12_Success == rpc.method = "beginFileRequest" /\ rpc["outcome"] = "ok" /\ query.pc = "held"

\* ------------------------------------------------------------------------
\* SpecSelect: the selection of a package for a file.  Init
\* draws what Snapshot.MetadataForFile returned for the file; the actions
\* apply the selecting functions to it.
\* ------------------------------------------------------------------------

\* The packages that may hold the file: p and its external test package, as
\* they are, as built for the test of p, and as built for the test of q.
PkgPaths == {"p", "p_test"}
ForTests == {"", "p", "q"}
AllMetadata ==
    {[ID |-> <<path, forTest>>, PkgPath |-> path, ForTest |-> forTest, files |-> n] :
        path \in PkgPaths, forTest \in ForTests, n \in 1..MaxFiles}

\* Metadata.IsIntermediateTestVariant, without the test for the external
\* test package.
IsIntermediateTestVariant_OfAnyTest(m) ==
    m.ForTest # "" /\ m.ForTest # m.PkgPath

\* Metadata.IsIntermediateTestVariant
IsIntermediateTestVariant(m) ==
    m.ForTest # "" /\ m.ForTest # m.PkgPath /\ m.ForTest \o "_test" # m.PkgPath

\* The order of MetadataForFile: by the number of compiled files, and then
\* intermediate test variants last.
MetadataLess(a, b) ==
    \/ a.files < b.files
    \/ a.files = b.files /\ ~IsIntermediateTestVariant(a) /\ IsIntermediateTestVariant(b)

\* What Snapshot.MetadataForFile may return: packages with different IDs, in
\* its order.
MetadataLists ==
    {ms \in BatchesUpTo(AllMetadata, MaxMetas) :
        \A i, j \in 1..Len(ms) :
            i < j => ms[i].ID # ms[j].ID /\ ~MetadataLess(ms[j], ms[i])}

\* The loop of RemoveIntermediateTestVariants: res shares the array of metas,
\* the n elements kept so far are its first n; the i-th element is next.
RECURSIVE removeLoop(_, _, _)
removeLoop(array, i, n) ==
    IF i > Len(array) THEN SubSeq(array, 1, n)
    ELSE IF ~IsIntermediateTestVariant(array[i])
    THEN removeLoop([array EXCEPT ![n + 1] = array[i]], i + 1, n + 1)
    ELSE removeLoop(array, i + 1, n)

RemoveIntermediateTestVariants(metas) == removeLoop(metas, 1, 0)

\* NarrowestMetadataForFile, given what MetadataForFile returned.
NarrowestMetadataForFile(metas) ==
    LET kept == RemoveIntermediateTestVariants(metas)
    IN  IF Len(kept) = 0
        THEN [err |-> "no package metadata for file", md |-> NoMetadata, typeChecked |-> {}]
        ELSE [err |-> "", md |-> kept[1], typeChecked |-> {}]

\* The selector functions NarrowestPackageForFile and WidestPackageForFile
\* pass to selectPackageForFile, by name, and their application.
First == "metas[0]"
Last == "metas[len(metas)-1]"
applySelector(selector, metas) == IF selector = First THEN metas[1] ELSE metas[Len(metas)]

\* selectPackageForFile, given what MetadataForFile returned: the selected
\* package is type-checked.
selectPackageForFile(metas, selector) ==
    LET kept == RemoveIntermediateTestVariants(metas)
    IN  IF Len(kept) = 0
        THEN [err |-> "no package metadata for file", md |-> NoMetadata, typeChecked |-> {}]
        ELSE LET md == applySelector(selector, kept)
             IN  [err |-> "", md |-> md, typeChecked |-> {md.ID}]

NarrowestPackageForFile(metas) == selectPackageForFile(metas, First)

\* A WidestPackageForFile with the selector of the narrowest.
WidestPackageForFile_First(metas) == selectPackageForFile(metas, First)

WidestPackageForFile(metas) == selectPackageForFile(metas, Last)

\* A caller applies one of the functions to the metadata of the file.
Selected(op, r) ==
    /\ selection.op = ""
    /\ selection' = [selection EXCEPT !.op = op, !.err = r.err, !.md = r.md,
                                      !.typeChecked = r.typeChecked]
    /\ UNCHANGED <<overlays, disk, fsErr, fsFailed, lastEdit, read, memoVars, sessVars>>

CallNarrowestMetadataForFile ==
    Selected("NarrowestMetadataForFile", NarrowestMetadataForFile(selection.metas))
CallNarrowestPackageForFile ==
    Selected("NarrowestPackageForFile", NarrowestPackageForFile(selection.metas))
CallWidestPackageForFile ==
    Selected("WidestPackageForFile", WidestPackageForFile(selection.metas))
CallRemoveIntermediateTestVariants ==
    /\ selection.op = ""
    /\ selection' = [selection EXCEPT !.op = "RemoveIntermediateTestVariants",
                                      !.res = RemoveIntermediateTestVariants(selection.metas)]
    /\ UNCHANGED <<overlays, disk, fsErr, fsFailed, lastEdit, read, memoVars, sessVars>>

NextSelect ==
    \/ CallNarrowestMetadataForFile
    \/ CallNarrowestPackageForFile
    \/ CallWidestPackageForFile
    \/ CallRemoveIntermediateTestVariants

InitSelect ==
    /\ overlays = EmptyMap
    /\ disk = [u \in GoFiles |-> DiskFile(<<>>)]
    /\ fsErr = ""
    /\ fsFailed = FALSE
    /\ lastEdit = [u \in GoFiles |-> NoEdit]
    /\ read = NoRead
    /\ selection \in {[NoSelection EXCEPT !.metas = ms] : ms \in MetadataLists}
    /\ InitMemo
    /\ InitSession

SpecSelect == InitSelect /\ [][NextSelect]_vars

\* An intermediate test variant, in the words of the specification: built
\* for a test (ForTest is not empty) of another package (ForTest is not its
\* own path) and not the external test package of that test.
C15_IsITV(m) == m.ForTest # "" /\ m.ForTest # m.PkgPath /\ m.PkgPath # m.ForTest \o "_test"
Selecting == {"NarrowestMetadataForFile", "NarrowestPackageForFile", "WidestPackageForFile"}
Candidates == {i \in 1..Len(selection.metas) : ~C15_IsITV(selection.metas[i])}

\* C15: NarrowestMetadataForFile, NarrowestPackageForFile and
\* WidestPackageForFile select no intermediate test variant and type-check
\* none; when the file has no package, or only intermediate test variants,
\* they return the error 'no package metadata for file' and type-check
\* nothing; otherwise they select one of the packages of the file.
C15_NeverIntermediateTestVariant ==
    selection.op \in Selecting =>
        /\ \A id \in selection.typeChecked :
              \E i \in Candidates : selection.metas[i].ID = id
        /\ IF Candidates = {}
           THEN selection.err = "no package metadata for file" /\ selection.typeChecked = {}
           ELSE /\ selection.err = ""
                /\ \E i \in Candidates : selection.metas[i] = selection.md
                /\ selection.op # "NarrowestMetadataForFile"
                      => selection.typeChecked = {selection.md.ID}

\* Reached: the narrowest package of the file is an intermediate test
\* variant, and NarrowestPackageForFile type-checked the package after it.
C15_Witness ==
    /\ selection.op = "NarrowestPackageForFile"
    /\ Len(selection.metas) = 2
    /\ C15_IsITV(selection.metas[1])
    /\ selection.metas[1].files < selection.metas[2].files
    /\ selection.md = selection.metas[2]
    /\ selection.typeChecked = {selection.metas[2].ID}

\* Reached too: every package of the file is an intermediate test variant.
C15_WitnessNone ==
    /\ selection.op = "WidestPackageForFile"
    /\ Len(selection.metas) = 2
    /\ Candidates = {}
    /\ selection.err = "no package metadata for file"

\* C16: of the packages MetadataForFile returned, the narrowest selection is
\* a package that is no intermediate test variant and has the fewest files
\* among those, the widest selection one with the most; and
\* RemoveIntermediateTestVariants leaves the packages that are no
\* intermediate test variants, all of them, in the order they had.
C16_NarrowestAndWidest ==
    LET metas == selection.metas
        res == selection.res
    IN  /\ (selection.op \in Selecting /\ Candidates # {}) =>
              /\ \E i \in Candidates : metas[i] = selection.md
              /\ \A i \in Candidates :
                    IF selection.op = "WidestPackageForFile"
                    THEN metas[i].files <= selection.md.files
                    ELSE selection.md.files <= metas[i].files
        /\ selection.op = "RemoveIntermediateTestVariants" =>
              /\ Len(res) = Cardinality(Candidates)
              /\ \E f \in [1..Len(res) -> Candidates] :
                    /\ \A k \in 1..Len(res) : res[k] = metas[f[k]]
                    /\ \A k, l \in 1..Len(res) : k < l => f[k] < f[l]

\* Reached: the widest package of the file is an intermediate test variant,
\* and WidestPackageForFile selected the package before it, which has more
\* files than the first.
C16_Witness ==
    LET metas == selection.metas
    IN  /\ selection.op = "WidestPackageForFile"
        /\ Len(metas) = MaxMetas
        /\ C15_IsITV(metas[MaxMetas])
        /\ selection.md = metas[MaxMetas - 1]
        /\ metas[1].files < selection.md.files

\* Reached too: RemoveIntermediateTestVariants removed a package between two
\* it kept.
C16_WitnessRemoved ==
    LET metas == selection.metas
    IN  /\ selection.op = "RemoveIntermediateTestVariants"
        /\ Len(metas) = 3 /\ C15_IsITV(metas[2])
        /\ selection.res = <<metas[1], metas[3]>>

C21_WitnessClone ==
    /\ Len(snaps) = 3
    /\ snaps[3].parent # 0
    /\ snaps[3].globalID > snaps[2].globalID

\* ------------------------------------------------------------------------
\* SpecServer: the life of the server, from its creation to its shutdown.
\* ------------------------------------------------------------------------
\* The workspace folders the editor names in its initialize request.
WorkspaceFolders == <<"/w", "/w/sub">>

\* server.pendingFolders: Initialize records the folders, and Initialized,
\* the only reader of the list, adds them. Initialize succeeds once, so the
\* list holds the folders exactly while the server is initializing.
pendingFolders ==
    IF state = "serverInitializing" THEN WorkspaceFolders ELSE <<>>

\* server.addFolders for a list of folders.
RECURSIVE addAllFolders(_, _, _)
addAllFolders(st, folders, serverState) ==
    IF folders = <<>> THEN st
    ELSE addAllFolders(addFolders(st, Head(folders), serverState), Tail(folders),
                       serverState)

\* An Initialize that is rejected only once the server is initialized.
initializeRejects_WhenInitialized(serverState) ==
    StateRank[serverState] >= StateRank["serverInitialized"]

\* The test of the state in server.Initialize.
initializeRejects(serverState) ==
    StateRank[serverState] >= StateRank["serverInitializing"]

\* The test of the state in server.Initialized.
initializedRejects(serverState) ==
    StateRank[serverState] >= StateRank["serverInitialized"]

\* History: the request of this step, and its error.
Rpc(method, err) == [method |-> method, uri |-> "", err |-> err, inverted |-> FALSE]

\* server.Initialize
Initialize ==
    /\ panicked = ""
    /\ IF initializeRejects(state)
       THEN /\ rpc' = Rpc("initialize", "invalid request")
            /\ UNCHANGED state
       ELSE /\ rpc' = Rpc("initialize", "")
            /\ state' = "serverInitializing"
    /\ UNCHANGED <<overlays, disk, views, viewMap, viewObjs, snaps, panicked, query,
                   fsErr, fsFailed, lastEdit, read, selection, memoVars, srvVars, changedFiles>>

\* server.Initialized (the notification of the editor): the pending folders
\* become views.
InitializedNotification ==
    /\ panicked = ""
    /\ IF initializedRejects(state)
       THEN /\ rpc' = Rpc("initialized", "invalid request")
            /\ UNCHANGED <<state, views, viewMap, viewObjs, snaps, panicked>>
       ELSE /\ rpc' = Rpc("initialized", "")
            /\ state' = "serverInitialized"
            /\ CommitSession(addAllFolders(Sess, pendingFolders, "serverInitialized"),
                             overlays, disk, query.snap)
    /\ UNCHANGED <<overlays, disk, query, fsErr, fsFailed, lastEdit, read, selection,
                   memoVars, srvVars, changedFiles>>

\* SpecServer: the editor initializes the server, opens files and shuts
\* the server down, in any order and any number of times,
\* while the file watcher reports changes and the goroutines of the server
\* finish.
NextServer ==
    \/ Initialize
    \/ InitializedNotification
    \/ \E uri \in GoFiles, text \in Texts : DidOpen(uri, text)
    \/ \E m \in WatchedMods : DidChangeWatchedFiles(<<m>>)
    \/ Shutdown
    \/ \E s \in 1..Len(snaps) : Initialized(s)
    \/ \E s \in 1..Len(snaps) : CallerRelease(s)

InitServer ==
    /\ overlays = EmptyMap
    /\ disk = [u \in GoFiles |-> DiskFile(<<>>)]
    /\ fsErr = ""
    /\ fsFailed = FALSE
    /\ lastEdit = [u \in GoFiles |-> NoEdit]
    /\ read = NoRead
    /\ selection = NoSelection
    /\ InitMemo
    /\ views = <<>>
    /\ viewMap = EmptyMap
    /\ viewObjs = <<>>
    /\ snaps = <<>>
    /\ query = [pc |-> "idle", uri |-> "", view |-> 0, snap |-> 0, seen |-> EmptyMap,
                reread |-> FALSE, stable |-> TRUE]
    /\ panicked = ""
    /\ state = "serverCreated"
    /\ changedFiles = {}
    /\ rpc = NoRpc
    /\ InitWatch

SpecServer == InitServer /\ [][NextServer]_vars

\* The session after the step.
SessAfter ==
    [views |-> views', viewMap |-> viewMap', viewObjs |-> viewObjs', snaps |-> snaps',
     panicked |-> panicked']

\* C22: the Shutdown request that finds the server not shut down shuts down
\* every view the session holds and leaves the session with no views: ViewOf
\* of either file is then an error, and so is View.Snapshot of each of those
\* views, which stay shut down for ever. A Shutdown request that finds the
\* server shut down leaves the session as it is.
C22_Step ==
    /\ (rpc'.method = "shutdown" /\ state # "serverShutDown") =>
          /\ views' = <<>>
          /\ \A i \in 1..Len(views) :
                /\ viewObjs'[views[i]].snapshot = 0
                /\ viewSnapshot(SessAfter, views[i]).err # ""
          /\ \A uri \in GoFiles : viewOfLocked(SessAfter, uri).err # ""
    /\ (rpc'.method = "shutdown" /\ state = "serverShutDown") =>
          /\ views' = views
          /\ viewObjs' = viewObjs
          /\ \A s \in 1..Len(snaps) : snaps'[s].refs = snaps[s].refs
    /\ \A vid \in 1..Len(viewObjs) :
          viewObjs[vid].snapshot = 0 =>
              (viewObjs'[vid].snapshot = 0 /\ viewSnapshot(SessAfter, vid).err # "")
C22_ShutdownOnce == [][C22_Step]_vars

\* Reached: a Shutdown request found two views and shut both down.
C22_Witness ==
    /\ rpc.method = "shutdown"
    /\ views = <<>>
    /\ Len(viewObjs) = 2
    /\ \A vid \in 1..2 : viewObjs[vid].snapshot = 0

\* Reached too: Shutdown was requested again, after a file was opened in the
\* server that was shut down; the view made for the file is not shut down.
C22_WitnessRepeated ==
    /\ rpc.method = "shutdown"
    /\ views # <<>>
    /\ viewObjs[1].snapshot = 0
    /\ viewObjs[Len(viewObjs)].snapshot # 0

\* The notifications that modify files.
ModificationMethods ==
    {"didOpen", "didChange", "didSave", "didClose", "didChangeWatchedFiles"}

\* C23: no step lowers the state of the server; Initialize is rejected as an
\* invalid request unless the server was just created; Initialized is
\* rejected as an invalid request if the server is initialized or shut down
\* (and only then); and a notification that modifies files, handled when
\* the server is shut down, is rejected with the error 'server is shut
\* down' and leaves the overlays as they are.
C23_Step ==
    /\ StateRank[state'] >= StateRank[state]
    /\ rpc'.method = "initialize" =>
          /\ (rpc'.err = "invalid request") <=> (state # "serverCreated")
          /\ rpc'.err = "" => state' = "serverInitializing"
    /\ rpc'.method = "initialized" =>
          /\ (rpc'.err = "invalid request") <=>
                (state \in {"serverInitialized", "serverShutDown"})
          /\ rpc'.err = "" => state' = "serverInitialized"
    /\ (rpc'.method \in ModificationMethods /\ state = "serverShutDown") =>
          /\ overlays' = overlays
          /\ rpc'.err = "server is shut down"
C23_WitnessInitialize ==
    /\ rpc = Rpc("initialize", "invalid request")
    /\ state = "serverInitializing"

\* ------------------------------------------------------------------------
\* SpecFilter: the directory filters of a folder applied to a directory.
\* ------------------------------------------------------------------------
\* Strings are sequences of characters here: directory names are made of
\* the letters a and b, and "/" separates them.
MaxPathLen == 3
MaxFilters == 2
Letters == {"a", "b"}
Slash == <<"/">>

\* strings.HasPrefix, strings.TrimPrefix and strings.TrimSuffix
HasPrefix(str, prefix) ==
    Len(prefix) <= Len(str) /\ SubSeq(str, 1, Len(prefix)) = prefix
TrimPrefix(str, prefix) ==
    IF HasPrefix(str, prefix) THEN SubSeq(str, Len(prefix) + 1, Len(str)) ELSE str
TrimSuffix(str, suffix) ==
    IF Len(suffix) <= Len(str) /\ SubSeq(str, Len(str) - Len(suffix) + 1, Len(str)) = suffix
    THEN SubSeq(str, 1, Len(str) - Len(suffix))
    ELSE str

\* The clean relative paths of at most n characters: no empty segment.
CleanPaths(n) ==
    {str \in UNION {[1..k -> Letters \cup {"/"}] : k \in 1..n} :
        /\ str[1] # "/" /\ str[Len(str)] # "/"
        /\ \A i \in 1..(Len(str) - 1) : ~(str[i] = "/" /\ str[i + 1] = "/")}

\* The directory filters of the options of a folder: an operator, "+" or
\* "-", and a clean path or nothing.
RawFilters ==
    {<<op>> \o prefix : op \in {"+", "-"}, prefix \in CleanPaths(MaxPathLen) \cup {<<>>}}
FilterLists == UNION {[1..k -> RawFilters] : k \in 0..MaxFilters}

\* convertFilterToRegexp, for a filter without "**": the regular expression
\* "^seg/seg/" is the string it matches at the start of a path, and ".*",
\* of the empty filter, matches everything (written <<>>).
convertFilterToRegexp(filter) ==
    IF filter = <<>> THEN <<>> ELSE filter \o Slash

\* regexp.MatchString, for these expressions.
MatchString(regexp, path) ==
    regexp = <<>> \/ HasPrefix(path, regexp)

\* NewFilterer
NewFilterer(rawFilters) ==
    [i \in 1..Len(rawFilters) |->
        [filter |-> convertFilterToRegexp(Tail(rawFilters[i])),
         excluded |-> Head(rawFilters[i]) = "-"]]

\* The loop of Filterer.Disallow over the filters from the i-th on.
RECURSIVE disallowLoop(_, _, _, _)
disallowLoop(f, path, i, excluded) ==
    IF i > Len(f) THEN excluded
    ELSE disallowLoop(f, path, i + 1,
                      IF MatchString(f[i].filter, path) THEN f[i].excluded ELSE excluded)

\* Filterer.Disallow: the path gets a trailing but no leading slash.
Disallow(f, path) ==
    LET p1 == TrimPrefix(path, Slash)
        p2 == IF p1 # <<>> /\ p1[Len(p1)] = "/" THEN p1 ELSE p1 \o Slash
    IN  disallowLoop(f, p2, 1, FALSE)

\* pathExcludedByFilter
pathExcludedByFilter(path, f) == Disallow(f, TrimPrefix(path, Slash))

\* The directory of the folder of the view, and the directories the scan
\* of the imports asks about: the folder, the directories below it, and one
\* beside it, /wa.
FolderDir == <<"/", "w">>
ScannedDirs ==
    {FolderDir \o Slash \o rel : rel \in CleanPaths(MaxPathLen)}
        \cup {FolderDir, FolderDir \o <<"a">>}

\* A SkipPathInScan that asks the filters about the whole path of the
\* directory.
SkipPathInScan_WholePath(folderDir, rawFilters, dir) ==
    LET prefix == TrimSuffix(folderDir, Slash) \o Slash
        uri == TrimSuffix(dir, Slash)
    IN  IF ~HasPrefix(uri \o Slash, prefix) THEN FALSE
        ELSE Disallow(NewFilterer(rawFilters), uri)

\* SkipPathInScan of the imports state of a view of folderDir with the
\* directory filters rawFilters. (protocol.URIFromPath puts the same scheme
\* before both paths.)
SkipPathInScan(folderDir, rawFilters, dir) ==
    LET prefix == TrimSuffix(folderDir, Slash) \o Slash
        uri == TrimSuffix(dir, Slash)
    IN  IF ~HasPrefix(uri \o Slash, prefix) THEN FALSE
        ELSE Disallow(NewFilterer(rawFilters), TrimPrefix(uri, prefix))

\* The scan asks about a directory.
CallSkipPathInScan ==
    /\ selection.op = ""
    /\ selection' = [selection EXCEPT
                        !.op = "SkipPathInScan",
                        !.res = SkipPathInScan(FolderDir, selection.filters, selection.dir)]
    /\ UNCHANGED <<overlays, disk, fsErr, fsFailed, lastEdit, read, memoVars, sessVars>>

NextFilter == CallSkipPathInScan

InitFilter ==
    /\ overlays = EmptyMap
    /\ disk = [u \in GoFiles |-> DiskFile(<<>>)]
    /\ fsErr = ""
    /\ fsFailed = FALSE
    /\ lastEdit = [u \in GoFiles |-> NoEdit]
    /\ read = NoRead
    /\ selection \in {[op |-> "", filters |-> fl, dir |-> d, res |-> FALSE] :
                        fl \in FilterLists, d \in ScannedDirs}
    /\ InitMemo
    /\ InitSession

SpecFilter == InitFilter /\ [][NextFilter]_vars

\* The segments of a path.
RECURSIVE C24_Segments(_)
C24_Segments(str) ==
    IF \A i \in 1..Len(str) : str[i] # "/" THEN <<str>>
    ELSE LET k == CHOOSE i \in 1..Len(str) :
                     str[i] = "/" /\ \A j \in 1..(i - 1) : str[j] # "/"
         IN  <<SubSeq(str, 1, k - 1)>> \o C24_Segments(SubSeq(str, k + 1, Len(str)))

\* A filter matches a path when it is empty, or names the path or one of the
\* directories above it.
C24_Matches(rawFilter, rel) ==
    LET fs == C24_Segments(Tail(rawFilter))
        ps == C24_Segments(rel)
    IN  Tail(rawFilter) = <<>> \/ (Len(fs) <= Len(ps) /\ SubSeq(ps, 1, Len(fs)) = fs)

\* A path is excluded when the last filter that matches it is an exclusion.
C24_Excluded(rawFilters, rel) ==
    LET M == {i \in 1..Len(rawFilters) : C24_Matches(rawFilters[i], rel)}
    IN  M # {} /\ \E i \in M : (\A j \in M : j <= i) /\ Head(rawFilters[i]) = "-"

\* TestFilters: the filters, with the paths the test wants included and
\* excluded; f stands for foo and fb for foobar.
TestFilters ==
    LET x == <<"x">> y == <<"y">> z == <<"z">> a == <<"a">>
        foo == <<"f">> foobar == <<"f", "b">>
    IN  << [filters |-> <<>>,
            included |-> {x}, excluded |-> {}],
           [filters |-> << <<"-">> >>,
            included |-> {}, excluded |-> {x, x \o Slash \o a}],
           [filters |-> << <<"-">> \o x, <<"+">> \o y >>,
            included |-> {y, y \o Slash \o a, z}, excluded |-> {x, x \o Slash \o a}],
           [filters |-> << <<"-">> \o x, <<"+">> \o x \o Slash \o y,
                           <<"-">> \o x \o Slash \o y \o Slash \o z >>,
            included |-> {x \o Slash \o y, x \o Slash \o y \o Slash \o a, a},
            excluded |-> {x, x \o Slash \o a, x \o Slash \o y \o Slash \o z \o Slash \o a}],
           [filters |-> << <<"+">> \o foobar, <<"-">> \o foo >>,
            included |-> {foobar, foobar \o Slash \o a},
            excluded |-> {foo, foo \o Slash \o a}] >>

\* C24: SkipPathInScan of a directory below the folder is the rule applied
\* to the path of the directory below the folder: the directory is excluded
\* exactly when the last filter that matches is an exclusion, a filter
\* matching the paths it names and those below them, and the empty filter
\* every path; so a path no filter matches is included. The paths of
\* TestFilters are included and excluded as the test wants, by the rule and
\* by pathExcludedByFilter.
C24_LastMatchingFilterDecides ==
    /\ (selection.op = "SkipPathInScan" /\ HasPrefix(selection.dir, FolderDir \o Slash)) =>
          (selection.res <=>
              C24_Excluded(selection.filters, TrimPrefix(selection.dir, FolderDir \o Slash)))
    /\ \A i \in 1..Len(TestFilters) :
          LET tt == TestFilters[i]
          IN  /\ \A inc \in tt.included :
                    /\ ~pathExcludedByFilter(inc, NewFilterer(tt.filters))
                    /\ ~C24_Excluded(tt.filters, inc)
              /\ \A exc \in tt.excluded :
                    /\ pathExcludedByFilter(exc, NewFilterer(tt.filters))
                    /\ C24_Excluded(tt.filters, exc)

\* Reached: the directory a/b of the folder is excluded by "-a" although
\* "+ab" comes first, which matches no directory above a/b.
C24_Witness ==
    /\ selection.op = "SkipPathInScan"
    /\ selection.filters = << <<"+", "a", "b">>, <<"-", "a">> >>
    /\ selection.dir = FolderDir \o <<"/", "a", "/", "b">>
    /\ selection.res

\* Reached too: the directory ab is included, "-a" not matching it.
C24_WitnessIncluded ==
    /\ selection.op = "SkipPathInScan"
    /\ selection.filters = << <<"-", "a">> >>
    /\ selection.dir = FolderDir \o <<"/", "a", "b">>
    /\ ~selection.res

\* ------------------------------------------------------------------------
\* SpecBatch: batches of modifications applied to the views of a session.
\* ------------------------------------------------------------------------
\* The loop of DidModifyFiles over the changes that builds its result, the
\* URIs to diagnose per new snapshot: each URI goes to the snapshot of the
\* best of the views it affects. invalidated are the views that were
\* invalidated, whose new snapshot is their current one.
RECURSIVE snapshotURIs(_, _, _, _, _)
snapshotURIs(st, changes, affectedViews, invalidated, acc) ==
    IF changes = <<>> THEN [panicked |-> "", uris |-> acc]
    ELSE
    LET mod == Head(changes)
        viewSlice == IF mod.URI \in DOMAIN affectedViews THEN affectedViews[mod.URI] ELSE <<>>
        view == bestViewForURI(st, mod.URI, viewSlice)
        snapshot == st.viewObjs[view].snapshot
    IN  IF viewSlice = <<>>
        THEN snapshotURIs(st, Tail(changes), affectedViews, invalidated, acc)
        ELSE IF view \notin invalidated
        THEN [panicked |-> "no snapshot for view", uris |-> acc]
        ELSE snapshotURIs(st, Tail(changes), affectedViews, invalidated,
                MapSet(acc, snapshot,
                       Append(IF snapshot \in DOMAIN acc THEN acc[snapshot] ELSE <<>>,
                              mod.URI)))

\* A DidModifyFiles that takes the first of the views a URI affects.
didModifyFilesResult_FirstAffected(st, ovs, dsk, changes, order) ==
    LET pre == didModifyFilesCollect(st, ovs, dsk, changes)
        st1 == invalidateViews(pre.st, pre.byView, order)
        res == snapshotURIs(st1, changes,
                            [u \in DOMAIN pre.affectedViews |-> <<pre.affectedViews[u][1]>>],
                            DOMAIN pre.byView, EmptyMap)
    IN  [err |-> pre.err,
         st |-> IF pre.err = "" /\ st1.panicked = "" /\ res.panicked # ""
                THEN Panic(st1, res.panicked) ELSE st1,
         byView |-> pre.byView,
         uris |-> IF pre.err = "" THEN res.uris ELSE EmptyMap]

\* Session.DidModifyFiles as a function of the session st: the session it
\* leaves, the error it returns, and its result; the map iteration takes the
\* affected views in the given order.
didModifyFilesResult(st, ovs, dsk, changes, order) ==
    LET pre == didModifyFilesCollect(st, ovs, dsk, changes)
        st1 == invalidateViews(pre.st, pre.byView, order)
        res == snapshotURIs(st1, changes, pre.affectedViews, DOMAIN pre.byView, EmptyMap)
    IN  [err |-> pre.err,
         st |-> IF pre.err = "" /\ st1.panicked = "" /\ res.panicked # ""
                THEN Panic(st1, res.panicked) ELSE st1,
         byView |-> pre.byView,
         uris |-> IF pre.err = "" THEN res.uris ELSE EmptyMap]

\* What the file watcher and the editor report of a file in SpecBatch.
ViewMods ==
    {Modification(u, "Change", TRUE, 0, NilText, "") : u \in GoFiles}
        \cup {Modification(u, "Open", FALSE, 1, Bytes(<<>>), "go") : u \in GoFiles}

\* The batches DidModifyFiles is asked about in every state.
MaxBatchLen == 2
ViewBatches == UNION {[1..n -> ViewMods] : n \in 1..MaxBatchLen}

\* SpecBatch: folders are added and removed, and single modifications
\* arrive, while the goroutines of the server finish.
NextBatch ==
    \/ \E folder \in Folders : NewView(folder)
    \/ \E vid \in 1..Len(viewObjs) : RemoveView(vid)
    \/ \E m \in ViewMods : DidModifyFiles(<<m>>)
    \/ \E s \in 1..Len(snaps) : Initialized(s)
    \/ \E s \in 1..Len(snaps) : CallerRelease(s)

SpecBatch == InitSpec /\ [][NextBatch]_vars

\* A change of uri is relevant to the view vid as the session is now.
C26_Relevant(vid, uri) ==
    uri \in viewObjs[vid].known \/ IsPrefix(PathOf[viewObjs[vid].folder], PathOf[uri])

\* The URIs of a batch that concern the view vid: those relevant to it, and
\* those relevant to no view that the editor changed and whose best view it
\* is.
C26_URIsOf(vid, changes) ==
    {uri \in {changes[i].URI : i \in 1..Len(changes)} :
        \/ C26_Relevant(vid, uri)
        \/ /\ \A i \in 1..Len(views) : ~C26_Relevant(views[i], uri)
           /\ \E i \in 1..Len(changes) : changes[i].URI = uri /\ ~changes[i].OnDisk
           /\ viewOfLocked(Sess, uri).view = vid}

\* What C26 says of the session st that DidModifyFiles leaves after changes.
C26_Holds(st, changes) ==
    /\ st.panicked = ""
    /\ st.views = views
    /\ \A i \in 1..Len(views) :
          LET vid == views[i]
              old == viewObjs[vid].snapshot
              new == st.viewObjs[vid].snapshot
              made == {s \in (Len(snaps) + 1)..Len(st.snaps) : st.snaps[s].view = vid}
          IN  IF C26_URIsOf(vid, changes) = {}
              THEN new = old /\ made = {}
              ELSE /\ made = {new}
                   /\ st.snaps[new].parent = old
                   /\ st.snaps[new].changed = C26_URIsOf(vid, changes)

\* C26: in every state with views, for every batch of at most MaxBatchLen
\* modifications and every order of the map iteration, DidModifyFiles makes
\* exactly one new snapshot for each view some URI of the batch concerns, a
\* clone of the snapshot the view had, made with all the URIs of the batch
\* that concern the view; the other views keep their snapshot.
C26_OneInvalidationPerView ==
    (panicked = "" /\ views # <<>>) =>
        \A changes \in ViewBatches :
            LET pre == didModifyFilesCollect(Sess, overlays, disk, changes)
            IN  \A order \in Orders(DOMAIN pre.byView) :
                    LET r == didModifyFilesResult(Sess, overlays, disk, changes, order)
                    IN  r.err = "" /\ C26_Holds(r.st, changes)

\* Reached: the session has the views of both folders, so that a batch with
\* both files invalidates each view once, the view of /w with both files.
C26_Witness ==
    /\ panicked = ""
    /\ Len(views) = 2
    /\ C26_URIsOf(views[1], <<Modification("/w/a.go", "Change", TRUE, 0, NilText, ""),
                              Modification("/w/sub/b.go", "Change", TRUE, 0, NilText, "")>>)
          = GoFiles
    /\ Len(snaps) = 3

\* Reached too: a view was invalidated before, and knows a file.
C26_WitnessKnown ==
    /\ Len(views) = 2
    /\ \E s \in 1..Len(snaps) : snaps[s].parent # 0
    /\ \E vid \in 1..Len(viewObjs) : viewObjs[vid].known # {}

\* The views of the session that a URI of the batch concerns.
C27_Affected(uri, changes) ==
    {views[i] : i \in {j \in 1..Len(views) : uri \in C26_URIsOf(views[j], changes)}}

\* The view vid is the best match for uri among the views aff: if some of
\* them contain uri, it is the one of them with the longest folder.
C27_Best(vid, uri, aff) ==
    LET containing == {w \in aff : IsPrefix(PathOf[viewObjs[w].folder], PathOf[uri])}
    IN  /\ vid \in aff
        /\ containing # {} =>
              /\ vid \in containing
              /\ \A w \in containing :
                    PathLen(PathOf[viewObjs[w].folder]) <= PathLen(PathOf[viewObjs[vid].folder])

\* What C27 says of what DidModifyFiles returns for changes.
C27_Holds(r, changes) ==
    /\ r.err = ""
    /\ r.st.panicked = ""
    /\ \A uri \in {changes[i].URI : i \in 1..Len(changes)} :
          LET aff == C27_Affected(uri, changes)
              listed == {s \in DOMAIN r.uris : \E k \in 1..Len(r.uris[s]) : r.uris[s][k] = uri}
          IN  IF aff = {} THEN listed = {}
              ELSE \E vid \in aff :
                      /\ C27_Best(vid, uri, aff)
                      /\ r.st.viewObjs[vid].snapshot > Len(snaps)
                      /\ listed = {r.st.viewObjs[vid].snapshot}

\* C27: in every state with views, for every batch and every order of the
\* map iteration, DidModifyFiles does not panic, and every URI of the batch
\* that concerns some view is listed in the result under one snapshot only,
\* the new snapshot of the best match among the views it concerns; a URI
\* that concerns no view is not listed.
C27_OneBestSnapshotPerURI ==
    (panicked = "" /\ views # <<>>) =>
        \A changes \in ViewBatches :
            LET pre == didModifyFilesCollect(Sess, overlays, disk, changes)
            IN  \A order \in Orders(DOMAIN pre.byView) :
                    C27_Holds(didModifyFilesResult(Sess, overlays, disk, changes, order),
                              changes)

\* Reached: the session has the views of both folders, /w/sub/b.go concerns
\* both and is listed under the view of /w/sub, the second of s.views.
C27_Witness ==
    /\ panicked = ""
    /\ Len(views) = 2
    /\ viewObjs[views[2]].folder = "/w/sub"
    /\ C27_Affected("/w/sub/b.go",
                    <<Modification("/w/sub/b.go", "Change", TRUE, 0, NilText, "")>>)
          = {views[1], views[2]}
    /\ C27_Best(views[2], "/w/sub/b.go", {views[1], views[2]})

\* No view of the session has uri under its folder or knows it.
C28_RelevantToNoView(uri) ==
    \A i \in 1..Len(views) : ~C26_Relevant(views[i], uri)

\* C28: in every state with views, a single modification of a file that is
\* relevant to no view, when it is a change on disk, makes no snapshot and
\* is not in the result; when it is a change of the editor, it invalidates
\* the view that ViewOf gives for the file, and that view only, and is in
\* the result under its new snapshot.
C28_OnlyRelevantViews ==
    (panicked = "" /\ views # <<>>) =>
        \A c \in {m \in ViewMods : C28_RelevantToNoView(m.URI)} :
            LET order == IF c.OnDisk THEN <<>> ELSE <<viewOfLocked(Sess, c.URI).view>>
                best == viewOfLocked(Sess, c.URI).view
                new == Len(snaps) + 1
            IN  /\ DOMAIN didModifyFilesCollect(Sess, overlays, disk, <<c>>).byView
                      = {order[i] : i \in 1..Len(order)}
                /\ LET res == didModifyFilesResult(Sess, overlays, disk, <<c>>, order)
                   IN  /\ res.err = "" /\ res.st.panicked = ""
                       /\ IF c.OnDisk
                          THEN /\ Len(res.st.snaps) = Len(snaps)
                               /\ res.st.viewObjs = viewObjs
                               /\ res.uris = EmptyMap
                          ELSE /\ Len(res.st.snaps) = new
                               /\ res.st.snaps[new].view = best
                               /\ res.st.viewObjs[best].snapshot = new
                               /\ \A i \in 1..Len(views) :
                                     views[i] # best =>
                                         res.st.viewObjs[views[i]].snapshot
                                             = viewObjs[views[i]].snapshot
                               /\ res.uris = (new :> <<c.URI>>)

\* Reached: the only view of the session is that of /w/sub, which does not
\* know /w/a.go, and it was invalidated before.
C28_Witness ==
    /\ panicked = ""
    /\ Len(views) = 1
    /\ viewObjs[views[1]].folder = "/w/sub"
    /\ C28_RelevantToNoView("/w/a.go")
    /\ Len(snaps) >= 2

\* The lists of views bestViewForURI is asked about in every state: the
\* lists of at most MaxListLen of the views created so far.
MaxListLen == 3
ViewLists == UNION {[1..n -> 1..Len(viewObjs)] : n \in 1..MaxListLen}

\* The view of the list vs that C29 names for uri.
C29_Expected(vs, uri) ==
    LET len(i) == PathLen(PathOf[viewObjs[vs[i]].folder])
        containing == {i \in 1..Len(vs) :
                          IsPrefix(PathOf[viewObjs[vs[i]].folder], PathOf[uri])}
        longest == {i \in containing : \A j \in containing : len(j) <= len(i)}
        knowing == {i \in 1..Len(vs) : uri \in viewObjs[vs[i]].known}
    IN  IF containing # {} THEN vs[CHOOSE i \in longest : \A j \in longest : j <= i]
        ELSE IF knowing # {} THEN vs[CHOOSE i \in knowing : \A j \in knowing : i <= j]
        ELSE vs[1]

\* C29: in every state, for every non-empty list of views and each file,
\* bestViewForURI returns a view of the list: the last of the views with the
\* longest folder among those that contain the file, else the first view
\* that knows the file, else the first view.
C29_BestViewIsMember ==
    \A vs \in ViewLists : \A uri \in GoFiles :
        LET best == bestViewForURI(Sess, uri, vs)
        IN  /\ \E i \in 1..Len(vs) : vs[i] = best
            /\ best = C29_Expected(vs, uri)

\* Reached: two views of the same folder were created, one after the other
\* was removed, so that lists with two views of equal folder length exist,
\* and the view of /w/sub knows /w/a.go, which it does not contain.
C29_Witness ==
    /\ \E v, w \in 1..Len(viewObjs) : v # w /\ viewObjs[v].folder = viewObjs[w].folder
    /\ \E v \in 1..Len(viewObjs) :
          viewObjs[v].folder = "/w/sub" /\ "/w/a.go" \in viewObjs[v].known

\* C30 (as the specification states it): ResetView in a session that has no
\* views, none added yet, all removed or shut down, returns an error, and
\* the process goes on.
C30_Step ==
    (views = <<>> /\ ResetView(LifecycleFile)) => panicked' = ""
C30_NoViewsIsAnError == [][C30_Step]_vars

\* C31: in every state, which is a state with the view lock free, every
\* entry of s.views is a view (not nil) that is not shut down, and no view
\* had its shutdown called more than once.
C31_ViewsAreLive ==
    /\ \A i \in 1..Len(views) : views[i] # 0 /\ viewObjs[views[i]].snapshot # 0
    /\ \A vid \in 1..Len(viewObjs) : viewObjs[vid].shutdowns <= 1

\* Reached: a view was removed and another created, which is in the session.
C31_Witness ==
    /\ Len(viewObjs) = 2
    /\ viewObjs[1].shutdowns = 1 /\ viewObjs[1].snapshot = 0
    /\ views = <<2>>
    /\ viewObjs[2].shutdowns = 0

\* C32: in every state, every view memoized in s.viewMap is one of s.views,
\* and so is the view ViewOf returns for either file when it returns one.
C32_ViewOfIsInSession ==
    /\ \A uri \in DOMAIN viewMap : \E i \in 1..Len(views) : views[i] = viewMap[uri]
    /\ \A uri \in GoFiles :
          LET r == viewOfLocked(Sess, uri)
          IN  r.err = "" =>
                 /\ \E i \in 1..Len(views) : views[i] = r.view
                 /\ viewObjs[r.view].snapshot # 0

\* Reached: a view was removed, and the view memoized for the file is the
\* view created after it.
C32_Witness ==
    /\ Len(viewObjs) = 2
    /\ viewObjs[1].snapshot = 0
    /\ LifecycleFile \in DOMAIN viewMap
    /\ viewMap[LifecycleFile] = 2
    /\ views = <<2>>

\* C33: in every state, for every file open in an overlay and each
\* modification the file watcher may report of it, updateOverlays returns
\* no error and leaves every overlay as it is but for the saved flag of the
\* overlay of the file, which is true exactly when the modification is not a
\* deletion and the file on disk is readable with the hash of the overlay.
C33_OnDiskChangeOnlySetsSaved ==
    \A uri \in DOMAIN overlays : \A m \in DiskMods({uri}) :
        LET r == updateOverlays(overlays, <<m>>, disk)
            saved == /\ m.Action # "Delete"
                     /\ disk[uri].exists
                     /\ HashOf(Bytes(disk[uri].b)) = overlays[uri].hash
        IN  /\ r.err = ""
            /\ r.overlays = [overlays EXCEPT ![uri].saved = saved]

\* Reached: an overlay with content of version 2 that is marked saved
\* although the file on disk has other content, so that the modification
\* changes the flag and nothing else.
C33_Witness ==
    \E uri \in DOMAIN overlays :
        /\ overlays[uri].version = 2
        /\ overlays[uri].saved
        /\ disk[uri].exists
        /\ HashOf(Bytes(disk[uri].b)) # overlays[uri].hash

\* Reached too: an overlay not marked saved whose content is on disk.
C33_WitnessBecomesSaved ==
    \E uri \in DOMAIN overlays :
        /\ ~overlays[uri].saved
        /\ disk[uri].exists
        /\ HashOf(Bytes(disk[uri].b)) = overlays[uri].hash

\* ------------------------------------------------------------------------
\* SpecReset: views are created over both folders and reset while both files
\* are opened and change on disk.
\* ------------------------------------------------------------------------

NextReset ==
    \/ \E folder \in Folders : NewView(folder)
    \/ \E m \in ViewMods : DidModifyFiles(<<m>>)
    \/ \E uri \in GoFiles : ResetView(uri)
    \/ \E s \in 1..Len(snaps) : Initialized(s)
    \/ \E s \in 1..Len(snaps) : CallerRelease(s)

SpecReset == InitSpec /\ [][NextReset]_vars

\* C34: when ResetView recreates the best view of a file, the view that
\* stands in its place in s.views is a new one, and its snapshot, the first
\* it has, holds for every file open in an overlay the handle of the
\* overlay.
C34_Step ==
    \A u \in GoFiles :
        (ResetView(u) /\ panicked' = "") =>
            LET v == bestViewForURI(Sess, u, views)
                new == views'[IndexOf(views, v)]
                s == viewObjs'[new].snapshot
            IN  /\ new > Len(viewObjs)
                /\ s > Len(snaps)
                /\ \A uri \in DOMAIN overlays :
                     /\ uri \in DOMAIN snaps'[s].files
                     /\ snaps'[s].files[uri] = OverlayHandle(overlays[uri])
C34_NewViewReadsOverlays == [][C34_Step]_vars

\* Reached: the view of the folder /w/sub was recreated while a file of the
\* folder above it was open, and the snapshot of the new view holds the
\* overlay of that file.
C34_Witness ==
    \E i \in 1..Len(views) :
        /\ views[i] > 1
        /\ viewObjs[views[i]].folder = "/w/sub"
        /\ viewObjs[views[i]].snapshot # 0
        /\ \E old \in 1..(views[i] - 1) :
             viewObjs[old].folder = "/w/sub" /\ viewObjs[old].snapshot = 0
        /\ "/w/a.go" \in DOMAIN overlays
        /\ "/w/a.go" \in DOMAIN snaps[viewObjs[views[i]].snapshot].files
        /\ snaps[viewObjs[views[i]].snapshot].files["/w/a.go"].overlay

\* ------------------------------------------------------------------------
\* SpecWatch: the file-watching registrations of the server, while views are
\* created and removed.
\* ------------------------------------------------------------------------

\* Most requests the server sends to the client in SpecWatch.
MaxRequests == 5

\* The server as updateWatchedDirectories sees it, and the requests it has
\* sent to the client.
Srv ==
    [watchedGlobPatterns |-> watchedGlobPatterns,
     watchRegistrationCount |-> watchRegistrationCount,
     requests |-> client.requests]

\* Session.FileWatchingGlobPatterns: the patterns of the snapshots of the
\* views that are not shut down; a snapshot watches the folder of its view.
FileWatchingGlobPatterns(st) ==
    {st.viewObjs[st.views[i]].folder :
        i \in {j \in 1..Len(st.views) : st.viewObjs[st.views[j]].snapshot # 0}}

equalURISet(m1, m2) ==
    /\ Cardinality(m1) = Cardinality(m2)
    /\ \A k \in m1 : k \in m2

watchedFilesCapabilityID(id) == <<"workspace/didChangeWatchedFiles", id>>

\* A request to the client and the error it returned ("" is nil).
Request(method, id, patterns, err) ==
    [method |-> method, id |-> watchedFilesCapabilityID(id), patterns |-> patterns,
     err |-> err]

\* server.registerWatchedDirectoriesLocked; the client answers the request
\* with regErr.
registerWatchedDirectoriesLocked(srv, dynamic, patterns, regErr) ==
    IF ~dynamic THEN [srv |-> srv, err |-> ""]
    ELSE LET srv1 == [srv EXCEPT
                        !.watchedGlobPatterns = patterns,
                        !.requests = Append(@, Request("client/registerCapability",
                                                       srv.watchRegistrationCount,
                                                       patterns, regErr))]
         IN  IF regErr # "" THEN [srv |-> srv1, err |-> regErr]
             ELSE [srv |-> [srv1 EXCEPT !.watchRegistrationCount = @ + 1], err |-> ""]

\* An updateWatchedDirectories that unregisters the previous registration
\* before it registers the new patterns.
updateWatchedDirectories_UnregisterFirst(srv, dynamic, patterns, regErr, unregErr) ==
    IF equalURISet(srv.watchedGlobPatterns, patterns) THEN [srv |-> srv, err |-> ""]
    ELSE LET prevID == srv.watchRegistrationCount - 1
             srv1 == IF prevID >= 0
                     THEN [srv EXCEPT !.requests =
                              Append(@, Request("client/unregisterCapability", prevID, {},
                                                unregErr))]
                     ELSE srv
         IN  registerWatchedDirectoriesLocked(srv1, dynamic, patterns, regErr)

\* server.updateWatchedDirectories, the session having the given patterns;
\* the client answers the two requests with regErr and unregErr.
updateWatchedDirectories(srv, dynamic, patterns, regErr, unregErr) ==
    IF equalURISet(srv.watchedGlobPatterns, patterns) THEN [srv |-> srv, err |-> ""]
    ELSE LET prevID == srv.watchRegistrationCount - 1
             r == registerWatchedDirectoriesLocked(srv, dynamic, patterns, regErr)
         IN  IF r.err # "" THEN r
             ELSE IF prevID >= 0
             THEN [srv |-> [r.srv EXCEPT !.requests =
                              Append(@, Request("client/unregisterCapability", prevID, {},
                                                unregErr))],
                   err |-> unregErr]
             ELSE [srv |-> r.srv, err |-> ""]

ClientErrors == {"", "client error"}

\* A call of updateWatchedDirectories, as server.didModifyFiles and
\* server.addFolders end with.
UpdateWatchedDirectories ==
    /\ panicked = ""
    /\ \E regErr, unregErr \in ClientErrors :
         LET r == updateWatchedDirectories(Srv, client.dynamicWatchedFiles,
                                           FileWatchingGlobPatterns(Sess), regErr, unregErr)
         IN  /\ Len(r.srv.requests) <= MaxRequests
             /\ watchedGlobPatterns' = r.srv.watchedGlobPatterns
             /\ watchRegistrationCount' = r.srv.watchRegistrationCount
             /\ client' = [client EXCEPT !.requests = r.srv.requests]
             /\ rpc' = Rpc("updateWatchedDirectories", r.err)
    /\ UNCHANGED <<fsVars, memoVars, views, viewMap, viewObjs, snaps, query, panicked,
                   state, changedFiles, adding>>

NextWatch ==
    \/ \E folder \in Folders : NewView(folder)
    \/ \E vid \in 1..Len(viewObjs) : RemoveView(vid)
    \/ UpdateWatchedDirectories

InitWatchSpec ==
    /\ InitSpec
    /\ client \in {[dynamicWatchedFiles |-> d, requests |-> <<>>] : d \in BOOLEAN}

SpecWatch == InitWatchSpec /\ [][NextWatch]_vars

\* The registrations the client holds after the requests reqs: a
\* registration is held from the request that succeeded to the request that
\* unregisters it.
RECURSIVE ActiveRegistrations(_)
ActiveRegistrations(reqs) ==
    IF reqs = <<>> THEN {}
    ELSE LET n == Len(reqs)
             before == ActiveRegistrations(SubSeq(reqs, 1, n - 1))
             q == reqs[n]
         IN  IF q.method = "client/registerCapability"
             THEN (IF q.err = "" THEN before \cup {q.id} ELSE before)
             ELSE before \ {q.id}

\* The positions of the registrations among reqs that succeeded.
Registered(reqs) ==
    {k \in 1..Len(reqs) : reqs[k].method = "client/registerCapability" /\ reqs[k].err = ""}

\* C35: of the requests sent to the client so far, every unregistration
\* comes right after a registration that succeeded, and unregisters the
\* registration that succeeded last before that one; and from the first
\* registration that succeeded on, the client holds a registration after
\* every request.
C35_RegistersBeforeUnregistering ==
    LET reqs == client.requests
    IN  /\ \A k \in 1..Len(reqs) :
             reqs[k].method = "client/unregisterCapability" =>
                 /\ k - 1 \in Registered(reqs)
                 /\ \E j \in Registered(reqs) :
                      /\ j < k - 1
                      /\ reqs[j].id = reqs[k].id
                      /\ \A i \in Registered(reqs) : i < k - 1 => i <= j
        /\ \A k \in 1..Len(reqs) :
             (\E j \in Registered(reqs) : j <= k) =>
                 ActiveRegistrations(SubSeq(reqs, 1, k)) # {}

\* Reached: after a registration that succeeded and one that failed, the
\* patterns were registered again and the first registration unregistered.
C35_Witness ==
    LET reqs == client.requests
    IN  /\ Len(reqs) = 4
        /\ reqs[1].method = "client/registerCapability" /\ reqs[1].err = ""
        /\ reqs[2].method = "client/registerCapability" /\ reqs[2].err # ""
        /\ reqs[3].method = "client/registerCapability" /\ reqs[3].err = ""
        /\ reqs[4].method = "client/unregisterCapability"
        /\ reqs[4].id = reqs[1].id

\* The patterns of the last registration that succeeded (none: no pattern).
LastRegistered(reqs) ==
    IF Registered(reqs) = {} THEN {}
    ELSE reqs[CHOOSE k \in Registered(reqs) : \A j \in Registered(reqs) : j <= k].patterns

\* C36 (as the specification states it): the patterns the server has
\* recorded are those of the last registration that succeeded.
C36_RecordedIsRegistered ==
    watchedGlobPatterns = LastRegistered(client.requests)

\* ------------------------------------------------------------------------
\* SpecAddFolders: one call of server.addFolders, step by step, with the
\* goroutines it starts for every view it creates.  SpecAddFoldersLive is
\* the same with the goroutines and the handler scheduled fairly.
\* ------------------------------------------------------------------------

\* Longest list of folders handed to addFolders.
MaxFolders == 2
FolderLists == UNION {[1..n -> Folders] : n \in 1..MaxFolders}

\* The progress report of one folder of the call, the snapshot addView
\* returned for it (0: none), where the two goroutines of the folder are,
\* and how often the release function of the snapshot was called.
Work(folder, ended, snap) ==
    [folder |-> folder, ended |-> ended, snap |-> snap,
     init |-> IF snap = 0 THEN "none" ELSE "await",
     diag |-> IF snap = 0 THEN "none" ELSE "diagnose",
     released |-> 0]

\* server.addView: the error it returns ("" is nil), before NewView is
\* called; fetchFolderOptions asks the client and returns optErr.
addViewErr(serverState, optErr) ==
    IF StateRank[serverState] < StateRank["serverInitialized"]
    THEN "addView called before server initialized"
    ELSE optErr

\* One turn of the loop of addFolders over the folders: the progress report
\* is started, addView is called, and the report is ended if addView
\* failed with an error other than ErrViewExists; for a view that was
\* created the two goroutines are started.
addFoldersLoop(st, folder, serverState, optErr) ==
    LET err == addViewErr(serverState, optErr)
        exists == \E i \in 1..Len(st.views) : st.viewObjs[st.views[i]].folder = folder
        st1 == createView(st, getViewDefinition(overlays, disk, folder), folder, 0)
        st2 == [st1 EXCEPT !.views = Append(@, Len(st1.viewObjs)), !.viewMap = EmptyMap]
    IN  IF err # "" THEN [st |-> st, work |-> Work(folder, TRUE, 0)]
        ELSE IF exists THEN [st |-> st, work |-> Work(folder, FALSE, 0)]
        ELSE [st |-> st2, work |-> Work(folder, FALSE, Len(st2.snaps))]

\* A wait group of snapshot initializations that is never added to.
nsnapshots_NeverAdded(works) == 0

\* nsnapshots: the number of unfinished snapshot initializations.
nsnapshots(works) == Cardinality({i \in 1..Len(works) : works[i].init = "await"})

\* The server is asked to add folders.
AddFoldersCall(folders) ==
    /\ panicked = ""
    /\ adding.pc = "idle"
    /\ adding' = [pc |-> "loop", folders |-> folders, works |-> <<>>]
    /\ UNCHANGED <<fsVars, memoVars, views, viewMap, viewObjs, snaps, query, panicked,
                   state, changedFiles, rpc, watchedGlobPatterns,
                   watchRegistrationCount, client>>

\* The loop of addFolders, for the next folder.
AddFoldersLoop ==
    /\ panicked = ""
    /\ adding.pc = "loop"
    /\ adding.folders # <<>>
    /\ \E optErr \in ClientErrors :
         LET r == addFoldersLoop(Sess, Head(adding.folders), state, optErr)
         IN  /\ Commit(r.st, overlays, disk, query.snap)
             /\ adding' = [adding EXCEPT !.folders = Tail(@),
                                         !.works = Append(@, r.work)]
    /\ UNCHANGED <<fsVars, memoVars, query, state, changedFiles, watchedGlobPatterns,
                   watchRegistrationCount, client>>

\* The first goroutine of a created view: snapshot.AwaitInitialized has
\* returned, the report is ended and the wait group told.
AwaitInitialized(i) ==
    /\ panicked = ""
    /\ adding.works[i].init = "await"
    /\ snaps[adding.works[i].snap].init
    /\ adding' = [adding EXCEPT !.works[i].init = "done", !.works[i].ended = TRUE]
    /\ UNCHANGED <<fsVars, memoVars, views, viewMap, viewObjs, snaps, query, panicked,
                   state, changedFiles, rpc, watchedGlobPatterns,
                   watchRegistrationCount, client>>

\* The second goroutine of a created view: diagnoseSnapshot has returned.
DiagnoseSnapshot(i) ==
    /\ panicked = ""
    /\ adding.works[i].diag = "diagnose"
    /\ adding' = [adding EXCEPT !.works[i].diag = "initialized"]
    /\ UNCHANGED <<fsVars, memoVars, views, viewMap, viewObjs, snaps, query, panicked,
                   state, changedFiles, rpc, watchedGlobPatterns,
                   watchRegistrationCount, client>>

\* The second goroutine has received from the channel the first one closes,
\* and calls release.
ReleaseSnapshot(i) ==
    /\ panicked = ""
    /\ adding.works[i].diag = "initialized"
    /\ adding.works[i].init = "done"
    /\ Commit(callerRelease(Sess, adding.works[i].snap), overlays, disk, query.snap)
    /\ adding' = [adding EXCEPT !.works[i].diag = "done", !.works[i].released = @ + 1]
    /\ UNCHANGED <<fsVars, memoVars, query, state, changedFiles, watchedGlobPatterns,
                   watchRegistrationCount, client>>

\* After the loop: nsnapshots.Wait has returned, the file watchers are
\* registered and addFolders returns.
AddFoldersReturn ==
    /\ panicked = ""
    /\ adding.pc = "loop"
    /\ adding.folders = <<>>
    /\ nsnapshots(adding.works) = 0
    /\ \E regErr, unregErr \in ClientErrors :
         LET r == updateWatchedDirectories(Srv, client.dynamicWatchedFiles,
                                           FileWatchingGlobPatterns(Sess), regErr, unregErr)
         IN  /\ watchedGlobPatterns' = r.srv.watchedGlobPatterns
             /\ watchRegistrationCount' = r.srv.watchRegistrationCount
             /\ client' = [client EXCEPT !.requests = r.srv.requests]
    /\ adding' = [adding EXCEPT !.pc = "returned"]
    /\ UNCHANGED <<fsVars, memoVars, views, viewMap, viewObjs, snaps, query, panicked,
                   state, changedFiles, rpc>>

NextAddFolders ==
    \/ \E folder \in Folders : NewView(folder) /\ adding.pc = "idle"
    \/ \E folders \in FolderLists : AddFoldersCall(folders)
    \/ AddFoldersLoop
    \/ \E s \in 1..Len(snaps) : Initialized(s)
    \/ \E i \in 1..Len(adding.works) : AwaitInitialized(i)
    \/ \E i \in 1..Len(adding.works) : DiagnoseSnapshot(i)
    \/ \E i \in 1..Len(adding.works) : ReleaseSnapshot(i)
    \/ AddFoldersReturn

SpecAddFolders == InitSpec /\ [][NextAddFolders]_vars

\* The goroutines run, the background initialization of a snapshot ends,
\* and the handler goes on when it can.
SpecAddFoldersLive ==
    /\ SpecAddFolders
    /\ WF_vars(AddFoldersLoop)
    /\ WF_vars(AddFoldersReturn)
    /\ WF_vars(\E s \in 1..Len(snaps) : Initialized(s))
    /\ WF_vars(\E i \in 1..Len(adding.works) : AwaitInitialized(i))
    /\ WF_vars(\E i \in 1..Len(adding.works) : DiagnoseSnapshot(i))
    /\ WF_vars(\E i \in 1..Len(adding.works) : ReleaseSnapshot(i))

\* The folders of the call for which a view was created.
Created == {i \in 1..Len(adding.works) : adding.works[i].snap # 0}

\* In every state: once addFolders has returned, the snapshot of every view
\* it created is initialized; release was called at most once for a view,
\* and only with its diagnosis and its initialization done; and when the
\* goroutines of a view are done, it was called.
C37_Inv ==
    /\ adding.pc = "returned" => \A i \in Created : snaps[adding.works[i].snap].init
    /\ \A i \in 1..Len(adding.works) :
         LET w == adding.works[i]
         IN  /\ w.released <= 1
             /\ w.released = 1 =>
                    /\ i \in Created
                    /\ w.diag = "done"
                    /\ w.init = "done"
                    /\ snaps[w.snap].init
             /\ (i \in Created /\ w.diag = "done") => w.released = 1

\* In every step: a request is sent to the client only when the snapshot of
\* every view the call created is initialized, and the release function of
\* a view is called by the goroutine that has diagnosed its snapshot.
C37_Step ==
    /\ client'.requests # client.requests =>
           \A i \in Created : snaps[adding.works[i].snap].init
    /\ \A i \in 1..Len(adding.works) :
           (Len(adding'.works) >= i /\ adding'.works[i].released # adding.works[i].released)
               => adding.works[i].diag = "initialized" /\ adding.works[i].init = "done"

C38_ReportsAreEnded ==
    \A i \in 1..MaxFolders :
        (Len(adding.works) >= i) ~> (Len(adding.works) >= i /\ adding.works[i].ended)

\* ------------------------------------------------------------------------
\* SpecInline: inlineCall, for caller and callee packages with and without
\* parse and type errors and every outcome of the inliner.
\* ------------------------------------------------------------------------

\* Most parse errors, and most type errors, of a package.
MaxErrors == 1
InlinePackages == [parseErrors : 0..MaxErrors, typeErrors : 0..MaxErrors]

\* What inline.AnalyzeCallee and inline.Inline may do.
InlinerOutcomes == {"ok", "error", "panic"}

\* A package that is never taken to be ill-typed.
bad_Never(p) == FALSE

\* bad, in inlineCall: the package has parse errors or type errors.
bad(p) == p.parseErrors + p.typeErrors > 0

\* inlineCall from the point where the callee is found: the error it
\* returns ("" is nil) and the panic that leaves it ("" is none).
inlineCall(calleePkg, callerPkg, analyzeCallee, inline) ==
    LET recovers == bad(calleePkg) \/ bad(callerPkg)
        raised == analyzeCallee = "panic" \/ (analyzeCallee = "ok" /\ inline = "panic")
        err == IF analyzeCallee = "error" THEN "AnalyzeCallee failed"
               ELSE IF inline = "error" THEN "Inline failed"
               ELSE ""
    IN  IF ~raised THEN [err |-> err, panic |-> ""]
        ELSE IF recovers THEN [err |-> "inlining failed unexpectedly", panic |-> ""]
        ELSE [err |-> "", panic |-> "inliner panic"]

\* The request is handled; a panic that leaves inlineCall ends the process.
InlineCall ==
    /\ selection.op = ""
    /\ panicked = ""
    /\ LET r == inlineCall(selection.calleePkg, selection.callerPkg,
                           selection.analyzeCallee, selection.inline)
       IN  /\ selection' = [selection EXCEPT !.op = "inlineCall"]
           /\ rpc' = Rpc("inlineCall", r.err)
           /\ panicked' = r.panic
    /\ UNCHANGED <<overlays, disk, fsErr, fsFailed, lastEdit, read, memoVars, views,
                   viewMap, viewObjs, snaps, query, state, changedFiles, srvVars>>

NextInline == InlineCall

InitInline ==
    /\ overlays = EmptyMap
    /\ disk = [u \in GoFiles |-> DiskFile(<<>>)]
    /\ fsErr = ""
    /\ fsFailed = FALSE
    /\ lastEdit = [u \in GoFiles |-> NoEdit]
    /\ read = NoRead
    /\ selection \in {[op |-> "", calleePkg |-> p, callerPkg |-> q,
                       analyzeCallee |-> a, inline |-> i] :
                        p \in InlinePackages, q \in InlinePackages,
                        a \in InlinerOutcomes, i \in InlinerOutcomes}
    /\ InitMemo
    /\ InitSession

SpecInline == InitInline /\ [][NextInline]_vars

\* The inliner has panicked in the request that was handled.
C39_Raised ==
    /\ selection.op = "inlineCall"
    /\ \/ selection.analyzeCallee = "panic"
       \/ selection.analyzeCallee = "ok" /\ selection.inline = "panic"

\* C39 (as the specification states it): a panic of the inliner is returned
\* by inlineCall as an error, and the process goes on.
C39_PanicIsAnError ==
    C39_Raised => (rpc.err # "" /\ panicked = "")

\* C39, amended: a panic of the inliner is returned by inlineCall as an
\* error, and the process goes on, when the package of the caller or the
\* package of the callee has a parse error or a type error; when neither
\* has, the panic leaves inlineCall.
C39_PanicIsAnErrorIfIllTyped ==
    C39_Raised =>
        IF selection.calleePkg.parseErrors + selection.calleePkg.typeErrors > 0
           \/ selection.callerPkg.parseErrors + selection.callerPkg.typeErrors > 0
        THEN rpc.err # "" /\ panicked = ""
        ELSE panicked # ""

\* Reached: inline.Inline panicked on a callee package with a type error,
\* and the request returned an error.
C39_Witness ==
    /\ selection.op = "inlineCall"
    /\ selection.analyzeCallee = "ok" /\ selection.inline = "panic"
    /\ selection.calleePkg = [parseErrors |-> 0, typeErrors |-> 1]
    /\ selection.callerPkg = [parseErrors |-> 0, typeErrors |-> 0]
    /\ rpc.err # ""
    /\ panicked = ""

====
